---- MODULE Spec2Model ----
(***************************************************************************)
(* cert-manager-notifier: the certificate monitor (internal/monitor), the  *)
(* webhook notifier (internal/webhook), configuration loading              *)
(* (internal/config), the health flag (internal/health) and the lifecycle  *)
(* of main (cmd/main.go).                                                  *)
(*                                                                         *)
(* Time is counted in units of 12 hours: Day == 2 is 24*time.Hour.         *)
(* Strings are sequences of one-character strings.                         *)
(***************************************************************************)
EXTENDS Integers, Sequences, FiniteSets, TLC

VARIABLES
    env,            \* value of the WEBHOOK_URLS environment variable
    mainPc,         \* position of main()
    cfgWebhooks,    \* cfg.Webhooks, as returned by config.Load
    checkInterval,  \* cfg.CheckInterval
    threshold,      \* cfg.ExpirationThreshold
    healthy,        \* health.healthy (int64 flag)
    cancelled,      \* ctx of main: TRUE once cancel() was called
    clock,          \* wall clock, what time.Now() returns
    monPc,          \* position of the goroutine running CertificateMonitor.Run
    tickerOn,       \* time.NewTicker was called
    nextTick,       \* instant at which the ticker fires next
    tickPending,    \* a tick is waiting in ticker.C (a channel of capacity 1)
    now,            \* the `now` of the pass in progress
    items,          \* certificates.Items not yet visited by the pass in progress
    notifiedCerts,  \* CertificateMonitor.notifiedCerts
    webhooks,       \* Notifier.webhooks
    payload,        \* the NotificationPayload of the fan-out in progress
    sendIdx,        \* index in n.webhooks of the next webhook of the loop
    successCount,   \* sendNotification's successCount
    lastError,      \* sendNotification's lastError
    ret,            \* what sendNotification returned
    warned,         \* the "Some webhooks failed" warning was logged by this call
    attempts,          \* the calls of sendToWebhook of this fan-out, in order
    passEvents,     \* the notifications fired by the pass in progress, in order
    lastSuccess,    \* per key, the `now` of the last fan-out that returned nil
    listErr,        \* the last call of getCertificates returned an error
    lastKind,       \* per key, the Type of the last fan-out that returned nil
    resp,           \* what client.Do returned to the last sendToWebhook of this fan-out
    input,          \* arguments and surroundings of a function called on its own
    output          \* what that call returned or did

vars == << env, mainPc, cfgWebhooks, checkInterval, threshold, healthy,
           cancelled, clock, monPc, tickerOn, nextTick, tickPending, now,
           items, notifiedCerts, webhooks, payload, sendIdx, successCount,
           lastError, ret, warned, attempts, passEvents, lastSuccess,
           listErr, lastKind, resp, input, output >>

tickerVars == << tickerOn, nextTick, tickPending >>
fanoutVars ==
    << payload, sendIdx, successCount, lastError, ret, warned, attempts, resp >>
passVars == << now, items, passEvents >>
logVars == << listErr, lastKind >>
callVars == << input, output >>

----------------------------------------------------------------------------
(* Bounds of the model *)

MaxTime == 5        \* the clock runs from 0 to MaxTime
MaxEnvLen == 5      \* longest WEBHOOK_URLS value tried by the loading checks
MaxRemaining == 4   \* longest time to expiry tried by the checks of one pass
MaxValLen == 2      \* longest value of a duration or port variable tried
MaxLatency == 3     \* a webhook answers after at most MaxLatency * SendUnit seconds
MaxHeaders == 2     \* a WEBHOOK_n_HEADERS value has at most MaxHeaders comma-separated parts

(* Program constants *)

Day == 2            \* 24*time.Hour, in units of 12 hours

None == "none"
Keys == {"ns/a", "ns/b"}            \* namespace/name of the certificates
KeyOrder == << "ns/a", "ns/b" >>    \* order in which List returns them
Chars == {",", " ", "u"}            \* alphabet of the WEBHOOK_URLS values
\* CHECK_INTERVAL and EXPIRATION_THRESHOLD values tried: 12h with 24h, and
\* 24h with 36h
Durations ==
    { [CheckInterval |-> 1, ExpirationThreshold |-> 2],
      [CheckInterval |-> 2, ExpirationThreshold |-> 3] }

----------------------------------------------------------------------------
(* internal/config: loadWebhooks *)

RECURSIVE IndexOfComma(_, _)
IndexOfComma(s, i) ==
    IF i > Len(s) THEN 0
    ELSE IF s[i] = "," THEN i
    ELSE IndexOfComma(s, i + 1)

\* strings.Split(s, ","): the fields between the commas, empty fields kept
RECURSIVE Split(_)
Split(s) ==
    LET c == IndexOfComma(s, 1)
    IN  IF c = 0 THEN << s >>
        ELSE << SubSeq(s, 1, c - 1) >> \o Split(SubSeq(s, c + 1, Len(s)))

\* strings.TrimSpace
RECURSIVE TrimLeft(_)
TrimLeft(s) ==
    IF s # << >> /\ Head(s) = " " THEN TrimLeft(Tail(s)) ELSE s

RECURSIVE TrimRight(_)
TrimRight(s) ==
    IF s # << >> /\ s[Len(s)] = " " THEN TrimRight(SubSeq(s, 1, Len(s) - 1)) ELSE s

TrimSpace(s) == TrimRight(TrimLeft(s))

\* the loop of loadWebhooks over urlList, from index i on; Name is the number
\* d of "webhook-%d"
RECURSIVE WebhooksFrom(_, _)
WebhooksFrom(urlList, i) ==
    IF i > Len(urlList) THEN << >>
    ELSE LET url == TrimSpace(urlList[i])
         IN  IF url = << >> THEN WebhooksFrom(urlList, i + 1)
             ELSE << [Name |-> i, URL |-> url] >> \o WebhooksFrom(urlList, i + 1)

\* loadWebhooks without its final len(webhooks) == 0 check
loadWebhooks_noEmptyCheck(urls) ==
    IF urls = << >>
    THEN [err |-> "WEBHOOK_URLS environment variable is required", webhooks |-> << >>]
    ELSE [err |-> None, webhooks |-> WebhooksFrom(Split(urls), 1)]

loadWebhooks(urls) ==
    IF urls = << >>
    THEN [err |-> "WEBHOOK_URLS environment variable is required", webhooks |-> << >>]
    ELSE LET whs == WebhooksFrom(Split(urls), 1)
         IN  IF Len(whs) = 0
             THEN [err |-> "no valid webhooks configured", webhooks |-> << >>]
             ELSE [err |-> None, webhooks |-> whs]

----------------------------------------------------------------------------
(* internal/config: Load *)

\* alphabet of the values of the duration and port variables
ValChars == {"0", "1", "h"}
Digits == {"0", "1"}

\* every string of at most n characters of ValChars
RECURSIVE ValStrings(_)
ValStrings(n) ==
    IF n = 0 THEN { << >> }
    ELSE LET shorter == ValStrings(n - 1)
         IN  shorter \cup { Append(v, c) : v \in shorter, c \in ValChars }

\* the number written by a string of digits
RECURSIVE DecimalValue(_)
DecimalValue(ds) ==
    IF ds = << >> THEN 0
    ELSE 10 * DecimalValue(SubSeq(ds, 1, Len(ds) - 1))
         + (IF ds[Len(ds)] = "1" THEN 1 ELSE 0)

\* length of the longest prefix of v made of digits
RECURSIVE DigitsPrefix(_)
DigitsPrefix(v) ==
    IF v = << >> \/ v[1] \notin Digits THEN 0
    ELSE 1 + DigitsPrefix(Tail(v))

\* strconv.Atoi: an error unless the string is a non-empty string of digits
Atoi(v) ==
    IF v # << >> /\ DigitsPrefix(v) = Len(v)
    THEN [err |-> FALSE, value |-> DecimalValue(v)]
    ELSE [err |-> TRUE, value |-> 0]

\* the groups number-unit of a duration from v on: each a non-empty string of
\* digits followed by the unit h, in seconds
RECURSIVE DurationGroups(_)
DurationGroups(v) ==
    IF v = << >> THEN [err |-> FALSE, value |-> 0]
    ELSE LET n == DigitsPrefix(v)
         IN  IF n = 0 \/ n = Len(v) \/ v[n + 1] # "h"
             THEN [err |-> TRUE, value |-> 0]
             ELSE LET rest == DurationGroups(SubSeq(v, n + 2, Len(v)))
                  IN  IF rest.err THEN rest
                      ELSE [err |-> FALSE,
                            value |-> 3600 * DecimalValue(SubSeq(v, 1, n))
                                      + rest.value]

\* time.ParseDuration, in seconds: "0" is zero, the empty string is an error
ParseDuration(v) ==
    IF v = << "0" >> THEN [err |-> FALSE, value |-> 0]
    ELSE IF v = << >> THEN [err |-> TRUE, value |-> 0]
    ELSE DurationGroups(v)

\* the headers of WEBHOOK_<i>_HEADERS, its value given as the list of its
\* comma-separated parts, each << name, value >> or, without a colon,
\* << text >>: the parts without a colon are dropped, a name given twice
\* keeps its last value
RECURSIVE ParseHeaders(_)
ParseHeaders(parts) ==
    IF parts = << >> THEN [h \in {} |-> ""]
    ELSE LET before == ParseHeaders(SubSeq(parts, 1, Len(parts) - 1))
             kv == parts[Len(parts)]
         IN  IF Len(kv) # 2 THEN before
             ELSE [h \in DOMAIN before \cup {kv[1]} |->
                      IF h = kv[1] THEN kv[2] ELSE before[h]]

\* a Config whose defaults are a check every hour and a threshold of 7 days
DefaultConfig_testValues ==
    [CheckInterval |-> 3600, ExpirationThreshold |-> 604800, Namespace |-> << >>,
     HealthPort |-> 8080, Timeout |-> 30]

\* the defaults of Load and loadWebhooks, durations in seconds: 24h, 30 days,
\* all namespaces, port 8080, 30s per webhook
DefaultConfig ==
    [CheckInterval |-> 86400, ExpirationThreshold |-> 2592000, Namespace |-> << >>,
     HealthPort |-> 8080, Timeout |-> 30]

\* the value of a duration variable v over the default d
DurationOr(v, d) ==
    IF v # << >> /\ ~ParseDuration(v).err THEN ParseDuration(v).value ELSE d

\* config.Load in the environment e (LOG_LEVEL left out)
Load(e) ==
    LET r == loadWebhooks(e.WEBHOOK_URLS)
    IN  IF r.err # None THEN [err |-> "failed to load webhooks", cfg |-> None]
        ELSE [err |-> None,
              cfg |->
                [Webhooks |->
                    [i \in DOMAIN r.webhooks |->
                        LET w == r.webhooks[i]
                        IN  [Name |-> w.Name, URL |-> w.URL,
                             Headers |-> ParseHeaders(e.WEBHOOK_HEADERS[w.Name]),
                             Timeout |-> DurationOr(e.WEBHOOK_TIMEOUT[w.Name],
                                                    DefaultConfig.Timeout)]],
                 CheckInterval |->
                    DurationOr(e.CHECK_INTERVAL, DefaultConfig.CheckInterval),
                 ExpirationThreshold |->
                    DurationOr(e.EXPIRATION_THRESHOLD,
                               DefaultConfig.ExpirationThreshold),
                 Namespace |-> IF e.NAMESPACE # << >> THEN e.NAMESPACE
                               ELSE DefaultConfig.Namespace,
                 HealthPort |-> IF e.HEALTH_PORT # << >> /\ ~Atoi(e.HEALTH_PORT).err
                                THEN Atoi(e.HEALTH_PORT).value
                                ELSE DefaultConfig.HealthPort]]

----------------------------------------------------------------------------
(* The initial state: the process was started, main() has not run yet *)

EmptyTable == [k \in {} |-> 0]

\* the nil error of sendNotification's lastError, the values of ret before
\* and after a nil return, the absent payload
NoError == [webhook |-> 0, err |-> None]
NotReturned == [err |-> None, cause |-> NoError]
NoResponse == [err |-> FALSE, status |-> 0]

\* no function is called on its own in this run
NoCall == [call |-> None]
Nil == [err |-> "nil", cause |-> NoError]
NoPayload ==
    [Type |-> None, key |-> None, ExpiresAt |-> 0, Days |-> 0, Timestamp |-> 0]

\* WEBHOOK_URLS values the whole program is run with: unset, only blank
\* entries, one webhook, three webhooks
SystemEnvs ==
    { << >>, << " ", ",", " " >>, << "u" >>, << "u", ",", "u", ",", "u" >> }

\* every WEBHOOK_URLS value of at most MaxEnvLen characters
RECURSIVE StringsUpTo(_)
StringsUpTo(n) ==
    IF n = 0 THEN { << >> }
    ELSE LET shorter == StringsUpTo(n - 1)
         IN  shorter \cup { Append(s, c) : s \in shorter, c \in Chars }

\* the variables of a process that has just been started, clock aside
ProcessStart ==
    /\ mainPc = "load"
    /\ cfgWebhooks = << >>
    /\ checkInterval = 0
    /\ threshold = 0
    /\ healthy = 1
    /\ cancelled = FALSE
    /\ monPc = "off"
    /\ tickerOn = FALSE
    /\ nextTick = 0
    /\ tickPending = FALSE
    /\ now = 0
    /\ items = << >>
    /\ notifiedCerts = EmptyTable
    /\ webhooks = << >>
    /\ payload = NoPayload
    /\ sendIdx = 0
    /\ successCount = 0
    /\ lastError = NoError
    /\ ret = NotReturned
    /\ warned = FALSE
    /\ attempts = << >>
    /\ passEvents = << >>
    /\ lastSuccess = EmptyTable
    /\ listErr = FALSE
    /\ lastKind = EmptyTable
    /\ resp = NoResponse

InitState ==
    /\ ProcessStart
    /\ clock = 0
    /\ input = NoCall
    /\ output = NoCall

Init == env \in SystemEnvs /\ InitState

InitLoad == env \in StringsUpTo(MaxEnvLen) /\ InitState

\* WEBHOOK_URLS values of the runs whose termination is checked: unset, one
\* webhook
LiveEnvs == { << >>, << "u" >> }

InitLive == env \in LiveEnvs /\ InitState

----------------------------------------------------------------------------
(* cmd/main.go: main *)

Alive == mainPc \notin {"fatal", "exited", "panicked"}

\* cfg, err := config.Load(); Fatal on error
MainLoad ==
    /\ mainPc = "load"
    /\ LET r == loadWebhooks(env)
       IN  IF r.err # None
           THEN /\ mainPc' = "fatal"
                /\ UNCHANGED << cfgWebhooks, checkInterval, threshold >>
           ELSE /\ mainPc' = "setup"
                /\ cfgWebhooks' = r.webhooks
                /\ \E d \in Durations :
                      /\ checkInterval' = d.CheckInterval
                      /\ threshold' = d.ExpirationThreshold
    /\ UNCHANGED << callVars, env, healthy, cancelled, clock, monPc, tickerVars, passVars,
                    notifiedCerts, webhooks, fanoutVars, lastSuccess, logVars >>

\* a setup that loads the table the previous process left
MainSetup_restoresTable ==
    /\ mainPc = "setup"
    /\ \E k8sOk \in BOOLEAN :
          IF k8sOk
          THEN /\ mainPc' = "sethealthy"
               /\ webhooks' = cfgWebhooks
               /\ notifiedCerts' = IF input.call = "restart" THEN input.notifiedCerts
                                  ELSE EmptyTable
          ELSE /\ mainPc' = "fatal"
               /\ UNCHANGED << webhooks, notifiedCerts >>
    /\ UNCHANGED << callVars, env, cfgWebhooks, checkInterval, threshold, healthy,
                    cancelled, clock, monPc, tickerVars, passVars, fanoutVars,
                    lastSuccess, logVars >>

\* getKubernetesConfig, webhook.NewNotifier, monitor.NewCertificateMonitor,
\* context.WithCancel, signal.Notify, go healthServer.Start()
MainSetup ==
    /\ mainPc = "setup"
    /\ \E k8sOk \in BOOLEAN :
          IF k8sOk
          THEN /\ mainPc' = "sethealthy"
               /\ webhooks' = cfgWebhooks
               /\ notifiedCerts' = EmptyTable
          ELSE /\ mainPc' = "fatal"
               /\ UNCHANGED << webhooks, notifiedCerts >>
    /\ UNCHANGED << callVars, env, cfgWebhooks, checkInterval, threshold, healthy,
                    cancelled, clock, monPc, tickerVars, passVars, fanoutVars,
                    lastSuccess, logVars >>

\* health.SetHealthy(true)
MainSetHealthy ==
    /\ mainPc = "sethealthy"
    /\ healthy' = 1
    /\ mainPc' = "spawn"
    /\ UNCHANGED << callVars, env, cfgWebhooks, checkInterval, threshold, cancelled,
                    clock, monPc, tickerVars, passVars, notifiedCerts, webhooks,
                    fanoutVars, lastSuccess, logVars >>

\* Run without its initial check
RunEntry_tickerFirst == "newticker"

\* where Run starts: at its initial checkCertificates
RunEntry == "check"

\* go func() { certMonitor.Run(ctx) }()
MainStartMonitor ==
    /\ mainPc = "spawn"
    /\ mainPc' = "wait"
    /\ monPc' = RunEntry
    /\ UNCHANGED << callVars, env, cfgWebhooks, checkInterval, threshold, healthy,
                    cancelled, clock, tickerVars, passVars, notifiedCerts,
                    webhooks, fanoutVars, lastSuccess, logVars >>

\* <-sigChan
MainSignal ==
    /\ mainPc = "wait"
    /\ mainPc' = "shutdown"
    /\ UNCHANGED << callVars, env, cfgWebhooks, checkInterval, threshold, healthy,
                    cancelled, clock, monPc, tickerVars, passVars,
                    notifiedCerts, webhooks, fanoutVars, lastSuccess, logVars >>

\* main going to cancel() without health.SetHealthy(false)
MainSetUnhealthy_skipped ==
    /\ mainPc = "shutdown"
    /\ mainPc' = "cancel"
    /\ UNCHANGED << callVars, env, cfgWebhooks, checkInterval, threshold, healthy,
                    cancelled, clock, monPc, tickerVars, passVars,
                    notifiedCerts, webhooks, fanoutVars, lastSuccess, logVars >>

\* health.SetHealthy(false)
MainSetUnhealthy ==
    /\ mainPc = "shutdown"
    /\ healthy' = 0
    /\ mainPc' = "cancel"
    /\ UNCHANGED << callVars, env, cfgWebhooks, checkInterval, threshold, cancelled,
                    clock, monPc, tickerVars, passVars, notifiedCerts, webhooks,
                    fanoutVars, lastSuccess, logVars >>

\* a shutdown that sleeps first and leaves the cancellation to the exit
MainCancel_deferred ==
    /\ mainPc = "cancel"
    /\ cancelled' = cancelled
    /\ mainPc' = "sleep"
    /\ UNCHANGED << callVars, env, cfgWebhooks, checkInterval, threshold, healthy, clock,
                    monPc, tickerVars, passVars, notifiedCerts, webhooks,
                    fanoutVars, lastSuccess, logVars >>

\* cancel()
MainCancel ==
    /\ mainPc = "cancel"
    /\ cancelled' = TRUE
    /\ mainPc' = "sleep"
    /\ UNCHANGED << callVars, env, cfgWebhooks, checkInterval, threshold, healthy, clock,
                    monPc, tickerVars, passVars, notifiedCerts, webhooks,
                    fanoutVars, lastSuccess, logVars >>

\* a main that waits for Run to return before it exits
MainExit_waitsForMonitor ==
    /\ mainPc = "sleep"
    /\ monPc = "stopped"
    /\ mainPc' = "exited"
    /\ cancelled' = TRUE
    /\ UNCHANGED << callVars, env, cfgWebhooks, checkInterval, threshold, healthy, clock,
                    monPc, tickerVars, passVars, notifiedCerts, webhooks,
                    fanoutVars, lastSuccess, logVars >>

\* time.Sleep(2 * time.Second) is over; main returns and the process exits
MainExit ==
    /\ mainPc = "sleep"
    /\ mainPc' = "exited"
    /\ cancelled' = TRUE
    /\ UNCHANGED << callVars, env, cfgWebhooks, checkInterval, threshold, healthy, clock,
                    monPc, tickerVars, passVars, notifiedCerts, webhooks,
                    fanoutVars, lastSuccess, logVars >>

----------------------------------------------------------------------------
(* internal/monitor: the predicates of CertificateMonitor *)

\* a certificate of the list: key is namespace/name, hasNotAfter says that
\* Status.NotAfter is not nil, notAfter is its instant (0 when nil)
Cert(k, e) == [key |-> k, hasNotAfter |-> e.set, notAfter |-> e.t]

NilTime == [set |-> FALSE, t |-> 0]
Time(t) == [set |-> TRUE, t |-> t]

\* isCertificateExpired taking the instant of expiry itself for expired
isCertificateExpired_fromExpiry(cert, t) ==
    IF ~cert.hasNotAfter THEN FALSE ELSE t >= cert.notAfter

isCertificateExpired(cert, t) ==
    IF ~cert.hasNotAfter THEN FALSE ELSE t > cert.notAfter

isCertificateExpiring(cert, t) ==
    IF ~cert.hasNotAfter THEN FALSE ELSE t + threshold > cert.notAfter

\* shouldNotifyExpired with > in place of >=
shouldNotifyExpired_strict(certKey, t) ==
    IF certKey \notin DOMAIN notifiedCerts THEN TRUE
    ELSE t - notifiedCerts[certKey] > Day

\* shouldNotifyExpired consulting only the records left by expired
\* notifications, as with one table per kind
shouldNotifyExpired_perKind(certKey, t) ==
    IF certKey \notin DOMAIN notifiedCerts THEN TRUE
    ELSE IF lastKind[certKey] # "expired" THEN TRUE
    ELSE t - notifiedCerts[certKey] >= Day

shouldNotifyExpired(certKey, t) ==
    IF certKey \notin DOMAIN notifiedCerts THEN TRUE
    ELSE t - notifiedCerts[certKey] >= Day

\* shouldNotifyExpiring without the cooldown
shouldNotifyExpiring_always(certKey, t) == TRUE

shouldNotifyExpiring(certKey, t) ==
    IF certKey \notin DOMAIN notifiedCerts THEN TRUE
    ELSE t - notifiedCerts[certKey] >= Day

\* markNotified keeping the record of certKey alone
markNotified_only(certKey, t) == [k \in {certKey} |-> t]

\* markNotified stamping every record of the table
markNotified_refreshAll(certKey, t) ==
    [k \in DOMAIN notifiedCerts \cup {certKey} |-> t]

\* notifiedCerts after markNotified(certKey, t)
markNotified(certKey, t) ==
    [k \in DOMAIN notifiedCerts \cup {certKey} |->
        IF k = certKey THEN t ELSE notifiedCerts[k]]

\* the division rounding to the nearest day
daysUntilExpiry_rounded(expiresAt, t) ==
    LET d == expiresAt - t
    IN  IF d >= 0 THEN (2 * d + Day) \div (2 * Day)
        ELSE -((2 * (-d) + Day) \div (2 * Day))

\* int(time.Until(expiresAt).Hours() / 24) with the clock at t: the
\* conversion to int drops the fraction, of a negative quotient too
daysUntilExpiry(expiresAt, t) ==
    LET d == expiresAt - t
    IN  IF d >= 0 THEN d \div Day ELSE -((-d) \div Day)

\* checkCertificate with the expiring branch before the expired branch
NotificationKind_expiringFirst(cert, t) ==
    IF ~cert.hasNotAfter THEN None
    ELSE IF isCertificateExpiring(cert, t)
         THEN IF shouldNotifyExpiring(cert.key, t) THEN "expiring" ELSE None
    ELSE IF isCertificateExpired(cert, t)
         THEN IF shouldNotifyExpired(cert.key, t) THEN "expired" ELSE None
    ELSE None

\* the branch checkCertificate takes for cert: the type of the notification
\* it sends, None when it returns without sending
NotificationKind(cert, t) ==
    IF ~cert.hasNotAfter THEN None
    ELSE IF isCertificateExpired(cert, t)
         THEN IF shouldNotifyExpired(cert.key, t) THEN "expired" ELSE None
    ELSE IF isCertificateExpiring(cert, t)
         THEN IF shouldNotifyExpiring(cert.key, t) THEN "expiring" ELSE None
    ELSE None

\* the values of Status.NotAfter tried for certificate k listed at instant
\* t. The first certificate: nil, one unit ago, this instant, the first
\* instant outside the threshold. The others: one unit ago.
NotAfterChoices(k, t) ==
    IF k = KeyOrder[1]
    THEN {NilTime, Time(t - 1), Time(t), Time(t + threshold)}
    ELSE {Time(t - 1)}

\* the lists getCertificates can return at instant t: any subset of the
\* keys, in the order of KeyOrder, each with any NotAfter
RECURSIVE CertListsFrom(_, _)
CertListsFrom(i, t) ==
    IF i > Len(KeyOrder) THEN { << >> }
    ELSE LET rest == CertListsFrom(i + 1, t)
         IN  rest \cup { << Cert(KeyOrder[i], e) >> \o r :
                           e \in NotAfterChoices(KeyOrder[i], t), r \in rest }

----------------------------------------------------------------------------
(* internal/monitor: Run and checkCertificates *)

\* return of checkCertificates to Run: the initial check is followed by
\* time.NewTicker, a periodic check by the select of the loop
AfterCheck == IF tickerOn THEN "select" ELSE "newticker"

\* a Run that returns the error of checkCertificates instead of logging it
GetCertificatesFail_fatal ==
    /\ Alive
    /\ monPc = "check"
    /\ monPc' = "stopped"
    /\ listErr' = TRUE
    /\ UNCHANGED << callVars, env, mainPc, cfgWebhooks, checkInterval, threshold, healthy,
                    cancelled, clock, tickerVars, passVars, notifiedCerts,
                    webhooks, fanoutVars, lastSuccess, lastKind >>

\* getCertificates returns an error: checkCertificates returns it, Run logs it
GetCertificatesFail ==
    /\ Alive
    /\ monPc = "check"
    /\ monPc' = AfterCheck
    /\ listErr' = TRUE
    /\ UNCHANGED << callVars, env, mainPc, cfgWebhooks, checkInterval, threshold, healthy,
                    cancelled, clock, tickerVars, passVars, notifiedCerts,
                    webhooks, fanoutVars, lastSuccess, lastKind >>

\* a getCertificates whose List does not look at ctx
GetCertificatesOk_ignoresCtx ==
    /\ Alive
    /\ monPc = "check"
    /\ items' \in CertListsFrom(1, clock)
    /\ now' = clock
    /\ passEvents' = << >>
    /\ monPc' = "loop"
    /\ listErr' = FALSE
    /\ UNCHANGED << callVars, env, mainPc, cfgWebhooks, checkInterval, threshold, healthy,
                    cancelled, clock, tickerVars, notifiedCerts, webhooks,
                    fanoutVars, lastSuccess, lastKind >>

\* getCertificates returns a list; now := time.Now()
GetCertificatesOk ==
    /\ Alive
    /\ monPc = "check"
    /\ ~cancelled
    /\ items' \in CertListsFrom(1, clock)
    /\ now' = clock
    /\ passEvents' = << >>
    /\ monPc' = "loop"
    /\ listErr' = FALSE
    /\ UNCHANGED << callVars, env, mainPc, cfgWebhooks, checkInterval, threshold, healthy,
                    cancelled, clock, tickerVars, notifiedCerts, webhooks,
                    fanoutVars, lastSuccess, lastKind >>

\* one iteration of the loop of checkCertificates: checkCertificate(cert, now)
\* up to its return or its call of Send...Notification, which builds the
\* payload and enters sendNotification
CheckCertificate ==
    /\ Alive
    /\ monPc = "loop"
    /\ items # << >>
    /\ LET cert == Head(items)
           kind == NotificationKind(cert, now)
       IN  IF kind = None
           THEN /\ items' = Tail(items)
                /\ UNCHANGED << monPc, passEvents, fanoutVars >>
           ELSE /\ payload' = [Type |-> kind, key |-> cert.key,
                               ExpiresAt |-> cert.notAfter,
                               Days |-> IF kind = "expiring"
                                        THEN daysUntilExpiry(cert.notAfter, clock)
                                        ELSE 0,
                               Timestamp |-> clock]
                /\ sendIdx' = 1
                /\ successCount' = 0
                /\ lastError' = NoError
                /\ attempts' = << >>
                /\ passEvents' = Append(passEvents, [key |-> cert.key, Type |-> kind])
                /\ monPc' = "send"
                /\ UNCHANGED << items, ret, warned, resp >>
    /\ UNCHANGED << callVars, env, mainPc, cfgWebhooks, checkInterval, threshold, healthy,
                    cancelled, clock, tickerVars, now, notifiedCerts, webhooks,
                    lastSuccess, logVars >>

\* a pass that reports the process healthy when it completes
CheckCertificatesDone_setsHealthy ==
    /\ Alive
    /\ monPc = "loop"
    /\ items = << >>
    /\ monPc' = AfterCheck
    /\ now' = 0
    /\ passEvents' = << >>
    /\ healthy' = 1
    /\ UNCHANGED << callVars, env, mainPc, cfgWebhooks, checkInterval, threshold,
                    cancelled, clock, tickerVars, items, notifiedCerts, webhooks,
                    fanoutVars, lastSuccess, logVars >>

\* the loop of checkCertificates is over: checkCertificates returns nil
CheckCertificatesDone ==
    /\ Alive
    /\ monPc = "loop"
    /\ items = << >>
    /\ monPc' = AfterCheck
    /\ now' = 0
    /\ passEvents' = << >>
    /\ UNCHANGED << callVars, env, mainPc, cfgWebhooks, checkInterval, threshold, healthy,
                    cancelled, clock, tickerVars, items, notifiedCerts, webhooks,
                    fanoutVars, lastSuccess, logVars >>

\* ticker := time.NewTicker(m.config.CheckInterval)
\* time.NewTicker panics when the interval is not positive, and a panic of
\* the goroutine, which nothing recovers, ends the process
NewTicker ==
    /\ Alive
    /\ monPc = "newticker"
    /\ IF checkInterval <= 0
       THEN /\ monPc' = "panicked"
            /\ mainPc' = "panicked"
            /\ UNCHANGED tickerVars
       ELSE /\ tickerOn' = TRUE
            /\ nextTick' = clock + checkInterval
            /\ tickPending' = FALSE
            /\ monPc' = "select"
            /\ UNCHANGED mainPc
    /\ UNCHANGED << callVars, env, cfgWebhooks, checkInterval, threshold, healthy,
                    cancelled, clock, passVars, notifiedCerts, webhooks,
                    fanoutVars, lastSuccess, logVars >>

\* a tick starting checkCertificates without waiting for the end of the pass
\* in progress
SelectTick_duringPass ==
    /\ Alive
    /\ monPc \in {"select", "loop", "send", "returned"}
    /\ tickPending
    /\ tickPending' = FALSE
    /\ monPc' = "check"
    /\ UNCHANGED << callVars, env, mainPc, cfgWebhooks, checkInterval, threshold, healthy,
                    cancelled, clock, tickerOn, nextTick, passVars, notifiedCerts,
                    webhooks, fanoutVars, lastSuccess, logVars >>

\* select: case <-ticker.C
SelectTick ==
    /\ Alive
    /\ monPc = "select"
    /\ tickPending
    /\ tickPending' = FALSE
    /\ monPc' = "check"
    /\ UNCHANGED << callVars, env, mainPc, cfgWebhooks, checkInterval, threshold, healthy,
                    cancelled, clock, tickerOn, nextTick, passVars, notifiedCerts,
                    webhooks, fanoutVars, lastSuccess, logVars >>

\* a loop that waits for ticks only (for range ticker.C), never reading
\* ctx.Done()
SelectDone_never ==
    /\ Alive
    /\ monPc = "select"
    /\ cancelled
    /\ FALSE
    /\ UNCHANGED vars

\* select: case <-ctx.Done(): Run returns nil
SelectDone ==
    /\ Alive
    /\ monPc = "select"
    /\ cancelled
    /\ monPc' = "stopped"
    /\ UNCHANGED << callVars, env, mainPc, cfgWebhooks, checkInterval, threshold, healthy,
                    cancelled, clock, tickerVars, passVars, notifiedCerts,
                    webhooks, fanoutVars, lastSuccess, logVars >>

----------------------------------------------------------------------------
(* The notification payload on the wire *)

\* the fields of the certificates that the passes hand to the notifier
\* unchanged: namespace, name, Spec.IssuerRef.Name, Spec.DNSNames
Objects ==
    [k \in Keys |->
        IF k = KeyOrder[1]
        THEN [Namespace |-> "ns", Name |-> "a", IssuerRef |-> "letsencrypt",
              DNSNames |-> << "example.com", "www.example.com" >>]
        ELSE [Namespace |-> "ns", Name |-> "b", IssuerRef |-> "",
              DNSNames |-> << >>]]

getIssuerName(cert) ==
    IF cert.IssuerRef # "" THEN cert.IssuerRef ELSE "unknown"

\* a time.Time: its instant, and whether it carries a monotonic clock reading
\* (those returned by time.Now() do, those read from a certificate or parsed
\* from text do not)
GoTime(t, m) == [wall |-> t, mono |-> m]
ZeroTime == GoTime(-1000, FALSE)

\* Time.Equal: the same instant
TimeEqual(a, b) == a.wall = b.wall

\* the Message of the payload p, as fmt.Sprintf builds it
Message(p) ==
    IF p.Type = "expired"
    THEN << "Certificate ", Objects[p.key].Namespace, "/", Objects[p.key].Name,
            " has expired" >>
    ELSE << "Certificate ", Objects[p.key].Namespace, "/", Objects[p.key].Name,
            " expires in ", ToString(p.Days), " days" >>

\* the NotificationPayload that Send...Notification hands to sendNotification
\* for the payload p of the model
NotificationPayloadOf(p) ==
    [Type |-> p.Type,
     Message |-> Message(p),
     Certificate |-> [Name |-> Objects[p.key].Name,
                      Namespace |-> Objects[p.key].Namespace,
                      Issuer |-> getIssuerName(Objects[p.key]),
                      DNSNames |-> Objects[p.key].DNSNames,
                      ExpiresAt |-> GoTime(p.ExpiresAt, FALSE)],
     Timestamp |-> GoTime(p.Timestamp, TRUE)]

\* the json tags of NotificationPayload in internal/webhook
PayloadTags ==
    [Type |-> "type", Message |-> "message", Certificate |-> "certificate",
     Name |-> "name", Namespace |-> "namespace", Issuer |-> "issuer",
     DNSNames |-> "dns_names", ExpiresAt |-> "expires_at",
     Timestamp |-> "timestamp"]

\* a receiving struct that names the list dnsNames
ConsumerTags_camelCase ==
    [Type |-> "type", Message |-> "message", Certificate |-> "certificate",
     Name |-> "name", Namespace |-> "namespace", Issuer |-> "issuer",
     DNSNames |-> "dnsNames", ExpiresAt |-> "expires_at",
     Timestamp |-> "timestamp"]

\* the json tags of the NotificationPayload the mock webhook server of the
\* integration test decodes into
ConsumerTags ==
    [Type |-> "type", Message |-> "message", Certificate |-> "certificate",
     Name |-> "name", Namespace |-> "namespace", Issuer |-> "issuer",
     DNSNames |-> "dns_names", ExpiresAt |-> "expires_at",
     Timestamp |-> "timestamp"]

\* Time.MarshalJSON writes the instant as RFC 3339 text, without the
\* monotonic reading; Time.UnmarshalJSON parses it
RFC3339(t) == [rfc3339 |-> t.wall]
ParseRFC3339(text) == GoTime(text.rfc3339, FALSE)

\* json.Marshal of the struct v whose fields carry the tags tags: an object
\* with one member per field, named by the tag of the field
Marshal(v, tags) ==
    LET certificate ==
            [n \in {tags.Name, tags.Namespace, tags.Issuer, tags.DNSNames,
                    tags.ExpiresAt} |->
                CASE n = tags.Name -> v.Certificate.Name
                  [] n = tags.Namespace -> v.Certificate.Namespace
                  [] n = tags.Issuer -> v.Certificate.Issuer
                  [] n = tags.DNSNames -> v.Certificate.DNSNames
                  [] n = tags.ExpiresAt -> RFC3339(v.Certificate.ExpiresAt)]
    IN  [n \in {tags.Type, tags.Message, tags.Certificate, tags.Timestamp} |->
            CASE n = tags.Type -> v.Type
              [] n = tags.Message -> v.Message
              [] n = tags.Certificate -> certificate
              [] n = tags.Timestamp -> RFC3339(v.Timestamp)]

\* the member n of the object o, zero when the object has no such member
Member(o, n, zero) == IF n \in DOMAIN o THEN o[n] ELSE zero

\* json.Unmarshal of the object o into a struct whose fields carry the tags
\* tags: a field takes the member named by its tag and keeps its zero value
\* when there is none
Unmarshal(o, tags) ==
    LET c == Member(o, tags.Certificate, << >>)
    IN  [Type |-> Member(o, tags.Type, ""),
         Message |-> Member(o, tags.Message, << >>),
         Certificate |->
             [Name |-> Member(c, tags.Name, ""),
              Namespace |-> Member(c, tags.Namespace, ""),
              Issuer |-> Member(c, tags.Issuer, ""),
              DNSNames |-> Member(c, tags.DNSNames, << >>),
              ExpiresAt |-> IF tags.ExpiresAt \in DOMAIN c
                            THEN ParseRFC3339(c[tags.ExpiresAt])
                            ELSE ZeroTime],
         Timestamp |-> IF tags.Timestamp \in DOMAIN o
                       THEN ParseRFC3339(o[tags.Timestamp])
                       ELSE ZeroTime]

----------------------------------------------------------------------------
(* internal/webhook: sendNotification and sendToWebhook *)

StatusCodes == {199, 200, 299, 300, 500}

\* a body marshalled again for each webhook, from a payload that names it
jsonPayload_perWebhook ==
    Marshal([NotificationPayloadOf(payload) EXCEPT
                !.Message = Append(@, ToString(sendIdx))], PayloadTags)

\* jsonPayload of sendNotification: json.Marshal(payload), made once before
\* the loop over the webhooks
jsonPayload == Marshal(NotificationPayloadOf(payload), PayloadTags)

\* a client.Do that does not look at the context of the request
Responses_ignoresCancel ==
    { [err |-> TRUE, status |-> 0] }
       \cup { [err |-> FALSE, status |-> c] : c \in StatusCodes }

\* what n.client.Do(req) can return: an error (transport error, timeout,
\* cancelled context) or a response with a status code; with the context
\* cancelled it returns an error
Responses ==
    IF cancelled THEN { [err |-> TRUE, status |-> 0] }
    ELSE { [err |-> TRUE, status |-> 0] }
           \cup { [err |-> FALSE, status |-> c] : c \in StatusCodes }

\* sendToWebhook taking a 300 for a success
sendToWebhook_upTo300(r) ==
    IF r.err THEN "failed to send request"
    ELSE IF r.status < 200 \/ r.status > 300
         THEN "webhook returned non-success status"
    ELSE None

\* the error sendToWebhook returns for the outcome r of client.Do, None
\* for nil
sendToWebhook(r) ==
    IF r.err THEN "failed to send request"
    ELSE IF r.status < 200 \/ r.status >= 300
         THEN "webhook returned non-success status"
    ELSE None

\* the loop of sendNotification stopping at the first success
LoopDone_firstSuccess == sendIdx > Len(webhooks) \/ successCount > 0

\* for _, webhook := range n.webhooks: the loop ends after the last webhook
LoopDone == sendIdx > Len(webhooks)

\* the loop of sendNotification reaches n.webhooks[sendIdx]: sendToWebhook
\* builds the request and calls client.Do
SendToWebhookStart ==
    /\ Alive
    /\ monPc = "send"
    /\ ~LoopDone
    /\ attempts' = Append(attempts, [webhook |-> webhooks[sendIdx].Name,
                                     result |-> "pending",
                                     body |-> jsonPayload])
    /\ resp' = NoResponse
    /\ monPc' = "inflight"
    /\ UNCHANGED << callVars, env, mainPc, cfgWebhooks, checkInterval, threshold, healthy,
                    cancelled, clock, tickerVars, passVars, notifiedCerts,
                    webhooks, payload, sendIdx, successCount, lastError, ret,
                    warned, lastSuccess, logVars >>

\* client.Do returns, sendToWebhook returns, the loop counts the result
SendToWebhookFinish ==
    /\ Alive
    /\ monPc = "inflight"
    /\ \E r \in Responses :
          LET err == sendToWebhook(r)
          IN  /\ resp' = r
              /\ IF err # None
                 THEN /\ lastError' = [webhook |-> webhooks[sendIdx].Name, err |-> err]
                      /\ UNCHANGED successCount
                 ELSE /\ successCount' = successCount + 1
                      /\ UNCHANGED lastError
              /\ attempts' = [attempts EXCEPT ![Len(attempts)].result =
                                 IF err = None THEN "ok" ELSE err]
    /\ sendIdx' = sendIdx + 1
    /\ monPc' = "send"
    /\ UNCHANGED << callVars, env, mainPc, cfgWebhooks, checkInterval, threshold, healthy,
                    cancelled, clock, tickerVars, passVars, notifiedCerts,
                    webhooks, payload, ret, warned, lastSuccess, logVars >>

\* sendNotification failing unless every webhook succeeded
SendNotificationResult_allRequired ==
    IF successCount < Len(webhooks)
    THEN [err |-> "failed to send notification to any webhook", cause |-> lastError]
    ELSE Nil

\* sendNotification without its warning
SomeWebhooksFailed_never == FALSE

\* if successCount < len(n.webhooks): the "Some webhooks failed" warning
SomeWebhooksFailed == successCount < Len(webhooks)

\* what sendNotification returns after its loop: Nil, or the error wrapping
\* lastError
SendNotificationResult ==
    IF successCount = 0
    THEN [err |-> "failed to send notification to any webhook", cause |-> lastError]
    ELSE Nil

\* the loop of sendNotification is over: the result, and the warning when
\* some webhooks failed
SendNotificationReturn ==
    /\ Alive
    /\ monPc = "send"
    /\ LoopDone
    /\ ret' = SendNotificationResult
    /\ warned' = (ret' = Nil /\ SomeWebhooksFailed)
    /\ lastSuccess' = IF ret' = Nil
                      THEN [k \in DOMAIN lastSuccess \cup {payload.key} |->
                               IF k = payload.key THEN now ELSE lastSuccess[k]]
                      ELSE lastSuccess
    /\ lastKind' = IF ret' = Nil
                   THEN [k \in DOMAIN lastKind \cup {payload.key} |->
                            IF k = payload.key THEN payload.Type ELSE lastKind[k]]
                   ELSE lastKind
    /\ resp' = NoResponse
    /\ monPc' = "returned"
    /\ UNCHANGED << callVars, env, mainPc, cfgWebhooks, checkInterval, threshold, healthy,
                    cancelled, clock, tickerVars, passVars, notifiedCerts,
                    webhooks, payload, sendIdx, successCount, lastError,
                    attempts, listErr >>

\* a checkCertificate that, after a failed send, records the key with an
\* instant no pass reaches, so that its cooldown never ends
NotifiedAfterSend_blocksOnFailure ==
    IF ret = Nil THEN markNotified(payload.key, now)
    ELSE markNotified(payload.key, MaxTime + Day)

\* checkCertificate reaching markNotified after a failed send too
NotifiedAfterSend_always == markNotified(payload.key, now)

\* notifiedCerts after checkCertificate got ret from Send...Notification: an
\* error is returned to checkCertificates before markNotified is reached
NotifiedAfterSend ==
    IF ret = Nil THEN markNotified(payload.key, now) ELSE notifiedCerts

\* a checkCertificates that returns the error of checkCertificate, leaving
\* the rest of the list unchecked
CheckCertificateReturn_abortsPass ==
    /\ Alive
    /\ monPc = "returned"
    /\ notifiedCerts' = NotifiedAfterSend
    /\ items' = IF ret = Nil THEN Tail(items) ELSE << >>
    /\ payload' = NoPayload
    /\ sendIdx' = 0
    /\ successCount' = 0
    /\ lastError' = NoError
    /\ ret' = NotReturned
    /\ warned' = FALSE
    /\ attempts' = << >>
    /\ monPc' = "loop"
    /\ UNCHANGED resp
    /\ UNCHANGED << callVars, env, mainPc, cfgWebhooks, checkInterval, threshold, healthy,
                    cancelled, clock, tickerVars, now, passEvents, webhooks,
                    lastSuccess, logVars >>

\* Send...Notification returned to checkCertificate, which returns to the
\* loop of checkCertificates; the loop goes to the next certificate
CheckCertificateReturn ==
    /\ Alive
    /\ monPc = "returned"
    /\ notifiedCerts' = NotifiedAfterSend
    /\ items' = Tail(items)
    /\ payload' = NoPayload
    /\ sendIdx' = 0
    /\ successCount' = 0
    /\ lastError' = NoError
    /\ ret' = NotReturned
    /\ warned' = FALSE
    /\ attempts' = << >>
    /\ monPc' = "loop"
    /\ UNCHANGED resp
    /\ UNCHANGED << callVars, env, mainPc, cfgWebhooks, checkInterval, threshold, healthy,
                    cancelled, clock, tickerVars, now, passEvents, webhooks,
                    lastSuccess, logVars >>

----------------------------------------------------------------------------
(* internal/health: the answers of the two endpoints *)

\* a /ready that answers 200 whatever the flag
readyHandler_always200 == [status |-> 200, body |-> "Ready"]

\* GET /health, answered with the flag as it is now
healthHandler ==
    IF healthy = 1 THEN [status |-> 200, body |-> "OK"]
    ELSE [status |-> 503, body |-> "Service Unavailable"]

\* GET /ready, answered with the flag as it is now
readyHandler ==
    IF healthy = 1 THEN [status |-> 200, body |-> "Ready"]
    ELSE [status |-> 503, body |-> "Not Ready"]

----------------------------------------------------------------------------
(* Time *)

\* the clock advances by one unit while the goroutine waits in its select or
\* for the List call, or between two certificates of a pass (the calls and the
\* log writes of a pass take time); a ticker that is due puts a tick in
\* ticker.C, unless one is waiting there already, and is due again one
\* period later
Advance ==
    /\ Alive
    /\ clock < MaxTime
    /\ \/ monPc \in {"check", "select"}
       \/ monPc = "loop" /\ items # << >>
    /\ clock' = clock + 1
    /\ IF tickerOn /\ clock' >= nextTick
       THEN /\ tickPending' = TRUE
            /\ nextTick' = nextTick + checkInterval
            /\ UNCHANGED tickerOn
       ELSE UNCHANGED tickerVars
    /\ UNCHANGED << callVars, env, mainPc, cfgWebhooks, checkInterval, threshold, healthy,
                    cancelled, monPc, passVars, notifiedCerts, webhooks,
                    fanoutVars, lastSuccess, logVars >>

----------------------------------------------------------------------------

Next ==
    \/ MainLoad
    \/ MainSetup
    \/ MainSetHealthy
    \/ MainStartMonitor
    \/ MainSignal
    \/ MainSetUnhealthy
    \/ MainCancel
    \/ MainExit
    \/ GetCertificatesFail
    \/ GetCertificatesOk
    \/ CheckCertificate
    \/ CheckCertificatesDone
    \/ NewTicker
    \/ SelectTick
    \/ SelectDone
    \/ SendToWebhookStart
    \/ SendToWebhookFinish
    \/ SendNotificationReturn
    \/ CheckCertificateReturn
    \/ Advance

Spec == Init /\ [][Next]_vars

\* The process is started again: the process that ran before it recorded a
\* notification for ns/a less than 24h before this start and is gone, with
\* its memory; what it held is kept in input for reference only
InitRestart ==
    /\ env = << "u" >>
    /\ ProcessStart
    /\ clock \in 1..Day
    /\ input \in { [call |-> "restart", notifiedCerts |-> [k \in {"ns/a"} |-> t]] :
                      t \in {clock - 1, clock} }
    /\ output = NoCall

SpecRestart == InitRestart /\ [][Next]_vars

NextLoad == MainLoad \/ MainSetup

SpecLoad == InitLoad /\ [][NextLoad]_vars

\* One pass on its own, for what a pass computes from its certificate and the
\* clock: a run with one webhook, CHECK_INTERVAL of a day and an
\* EXPIRATION_THRESHOLD longer than MaxRemaining, whose initial check has just
\* listed one certificate that expires 0..MaxRemaining units after now.
InitPass ==
    /\ env = << "u" >>
    /\ mainPc = "wait"
    /\ cfgWebhooks = loadWebhooks(env).webhooks
    /\ webhooks = cfgWebhooks
    /\ checkInterval = Day
    /\ threshold = MaxRemaining + 1
    /\ healthy = 1
    /\ cancelled = FALSE
    /\ clock = 0
    /\ monPc = "loop"
    /\ tickerOn = FALSE
    /\ nextTick = 0
    /\ tickPending = FALSE
    /\ now = 0
    /\ \E e \in 0 .. MaxRemaining : items = << Cert(KeyOrder[1], Time(e)) >>
    /\ passEvents = << >>
    /\ notifiedCerts = EmptyTable
    /\ payload = NoPayload
    /\ sendIdx = 0
    /\ successCount = 0
    /\ lastError = NoError
    /\ ret = NotReturned
    /\ warned = FALSE
    /\ attempts = << >>
    /\ lastSuccess = EmptyTable
    /\ listErr = FALSE
    /\ lastKind = EmptyTable
    /\ resp = NoResponse
    /\ input = NoCall
    /\ output = NoCall

NextPass ==
    \/ Advance
    \/ CheckCertificate
    \/ CheckCertificatesDone
    \/ SendToWebhookStart
    \/ SendToWebhookFinish
    \/ SendNotificationReturn
    \/ CheckCertificateReturn

SpecPass == InitPass /\ [][NextPass]_vars

\* A pass on its own with a notifier that NewNotifier built from a list
\* handed to it directly, as the tests of the package do: no webhook, one
\* webhook, two webhooks
NotifierLists ==
    { << >>, loadWebhooks(<< "u" >>).webhooks,
      loadWebhooks(<< "u", ",", "u" >>).webhooks }

InitNotifier ==
    /\ env = << >>
    /\ mainPc = "wait"
    /\ cfgWebhooks \in NotifierLists
    /\ webhooks = cfgWebhooks
    /\ checkInterval = Day
    /\ threshold = MaxRemaining + 1
    /\ healthy = 1
    /\ cancelled = FALSE
    /\ clock = 0
    /\ monPc = "loop"
    /\ tickerOn = FALSE
    /\ nextTick = 0
    /\ tickPending = FALSE
    /\ now = 0
    /\ \E e \in 0 .. MaxRemaining : items = << Cert(KeyOrder[1], Time(e)) >>
    /\ passEvents = << >>
    /\ notifiedCerts = EmptyTable
    /\ payload = NoPayload
    /\ sendIdx = 0
    /\ successCount = 0
    /\ lastError = NoError
    /\ ret = NotReturned
    /\ warned = FALSE
    /\ attempts = << >>
    /\ lastSuccess = EmptyTable
    /\ listErr = FALSE
    /\ lastKind = EmptyTable
    /\ resp = NoResponse
    /\ input = NoCall
    /\ output = NoCall

SpecNotifier == InitNotifier /\ [][NextPass]_vars

\* config.Load called on its own, as TestLoad does, in one environment:
\* WEBHOOK_URLS with one entry, two entries, a blank entry first, or unset;
\* CHECK_INTERVAL unset, valid, zero or invalid; EXPIRATION_THRESHOLD and
\* HEALTH_PORT any string of at most MaxValLen characters; NAMESPACE set or
\* not; the timeout variables of the entries unset, valid or invalid
ConfigUrls ==
    { << >>, << "u" >>, << "u", "u", ",", "u" >>, << " ", ",", "u" >> }
IntervalValues == { << >>, << "1", "h" >>, << "0" >>, << "h" >> }
TimeoutValues ==
    { << << >>, << >> >>, << << "1", "h" >>, << >> >>,
      << << >>, << "1", "h" >> >>, << << "h" >>, << "1" >> >> }
NoHeaders == << << >>, << >> >>

Environs ==
    { [WEBHOOK_URLS |-> u, CHECK_INTERVAL |-> ci, EXPIRATION_THRESHOLD |-> th,
       NAMESPACE |-> ns, HEALTH_PORT |-> hp, WEBHOOK_TIMEOUT |-> to,
       WEBHOOK_HEADERS |-> NoHeaders] :
         u \in ConfigUrls, ci \in IntervalValues, th \in ValStrings(MaxValLen),
         ns \in { << >>, << "n", "s" >> }, hp \in ValStrings(MaxValLen),
         to \in TimeoutValues }

InitConfig ==
    /\ env = << >>
    /\ ProcessStart
    /\ clock = 0
    /\ input \in { [call |-> "Load", env |-> e] : e \in Environs }
    /\ output = NoCall

ConfigLoad ==
    /\ input.call = "Load"
    /\ output = NoCall
    /\ output' = [call |-> "Load", ret |-> Load(input.env)]
    /\ UNCHANGED << env, mainPc, cfgWebhooks, checkInterval, threshold, healthy,
                    cancelled, clock, monPc, tickerVars, passVars, notifiedCerts,
                    webhooks, fanoutVars, lastSuccess, logVars, input >>

SpecConfig == InitConfig /\ [][ConfigLoad]_vars

\* The program run with the configuration that config.Load returns: one
\* webhook, CHECK_INTERVAL unset, valid, zero or invalid, the other variables
\* unset.  Load counts in seconds and the clock of the model in units of 12
\* hours: a duration is counted in the units it begins, so that a positive
\* one stays positive and zero stays zero.
HalfDay == 43200

Units(seconds) ==
    IF seconds > 0 THEN (seconds + HalfDay - 1) \div HalfDay
    ELSE -((-seconds) \div HalfDay)

IntervalEnvirons ==
    { [WEBHOOK_URLS |-> << "u" >>, CHECK_INTERVAL |-> ci,
       EXPIRATION_THRESHOLD |-> << >>, NAMESPACE |-> << >>,
       HEALTH_PORT |-> << >>, WEBHOOK_TIMEOUT |-> << << >> >>,
       WEBHOOK_HEADERS |-> << << >> >>] : ci \in IntervalValues }

InitInterval ==
    /\ env = << "u" >>
    /\ ProcessStart
    /\ clock = 0
    /\ input \in { [call |-> "main", env |-> e] : e \in IntervalEnvirons }
    /\ output = NoCall

\* cfg, err := config.Load(), with the CheckInterval and ExpirationThreshold
\* that Load returns
MainLoadConfig ==
    /\ mainPc = "load"
    /\ input.call = "main"
    /\ LET r == Load(input.env)
       IN  IF r.err # None
           THEN /\ mainPc' = "fatal"
                /\ UNCHANGED << cfgWebhooks, checkInterval, threshold >>
           ELSE /\ mainPc' = "setup"
                /\ cfgWebhooks' = loadWebhooks(input.env.WEBHOOK_URLS).webhooks
                /\ checkInterval' = Units(r.cfg.CheckInterval)
                /\ threshold' = Units(r.cfg.ExpirationThreshold)
    /\ UNCHANGED << callVars, env, healthy, cancelled, clock, monPc, tickerVars, passVars,
                    notifiedCerts, webhooks, fanoutVars, lastSuccess, logVars >>

NextInterval ==
    \/ MainLoadConfig
    \/ MainSetup
    \/ MainSetHealthy
    \/ MainStartMonitor
    \/ MainSignal
    \/ MainSetUnhealthy
    \/ MainCancel
    \/ MainExit
    \/ GetCertificatesFail
    \/ GetCertificatesOk
    \/ CheckCertificate
    \/ CheckCertificatesDone
    \/ NewTicker
    \/ SelectTick
    \/ SelectDone
    \/ SendToWebhookStart
    \/ SendToWebhookFinish
    \/ SendNotificationReturn
    \/ CheckCertificateReturn
    \/ Advance

SpecInterval == InitInterval /\ [][NextInterval]_vars

(***************************************************************************)
(* The time one sendToWebhook call takes.  Durations are in seconds and    *)
(* pass in steps of SendUnit.  The request carries reqCtx, whose deadline  *)
(* is webhook.Timeout after the call, and is sent by the shared client,    *)
(* whose Timeout ends every request ClientTimeout after Do is called.      *)
(***************************************************************************)
SendUnit == 15
ClientTimeout == 30

SendTimeouts == { SendUnit * k : k \in (-1)..(MaxLatency + 1) }
Latencies == { SendUnit * k : k \in 0..MaxLatency }

Min(a, b) == IF a <= b THEN a ELSE b

\* the moment, counted from the call, at which the request is given up
RequestDeadline(timeout) == Min(timeout, ClientTimeout)

InitSend ==
    /\ env = << >>
    /\ ProcessStart
    /\ clock = 0
    /\ input \in { [call |-> "sendToWebhook", timeout |-> t, latency |-> l] :
                      t \in SendTimeouts, l \in Latencies }
    /\ output = NoCall

SendUnchanged ==
    UNCHANGED << env, mainPc, cfgWebhooks, checkInterval, threshold, healthy,
                 clock, monPc, tickerVars, passVars, notifiedCerts, webhooks,
                 fanoutVars, lastSuccess, logVars, input >>

\* sendToWebhook is called: reqCtx is made and client.Do starts
SendCall ==
    /\ input.call = "sendToWebhook"
    /\ output = NoCall
    /\ output' = [call |-> "sendToWebhook", elapsed |-> 0, result |-> "pending"]
    /\ UNCHANGED cancelled
    /\ SendUnchanged

\* SendUnit seconds pass while client.Do waits
SendWait ==
    /\ output # NoCall
    /\ output.result = "pending"
    /\ ~cancelled
    /\ output.elapsed < RequestDeadline(input.timeout)
    /\ output.elapsed < input.latency
    /\ output' = [output EXCEPT !.elapsed = @ + SendUnit]
    /\ UNCHANGED cancelled
    /\ SendUnchanged

\* the webhook answers and client.Do returns its response
SendAnswered ==
    /\ output # NoCall
    /\ output.result = "pending"
    /\ output.elapsed = input.latency
    /\ output.elapsed <= RequestDeadline(input.timeout)
    /\ output' = [output EXCEPT !.result = "response"]
    /\ UNCHANGED cancelled
    /\ SendUnchanged

\* a deadline of the request passes and client.Do returns an error
SendTimedOut ==
    /\ output # NoCall
    /\ output.result = "pending"
    /\ output.elapsed >= RequestDeadline(input.timeout)
    /\ output' = [output EXCEPT !.result = "deadline exceeded"]
    /\ UNCHANGED cancelled
    /\ SendUnchanged

\* the parent context is cancelled while the request is in flight
SendParentCancel ==
    /\ output # NoCall
    /\ output.result = "pending"
    /\ ~cancelled
    /\ cancelled' = TRUE
    /\ UNCHANGED output
    /\ SendUnchanged

\* client.Do returns because the parent context is cancelled
SendCanceled ==
    /\ output # NoCall
    /\ output.result = "pending"
    /\ cancelled
    /\ output' = [output EXCEPT !.result = "context canceled"]
    /\ UNCHANGED cancelled
    /\ SendUnchanged

NextSend ==
    \/ SendCall
    \/ SendWait
    \/ SendAnswered
    \/ SendTimedOut
    \/ SendParentCancel
    \/ SendCanceled

SpecSend == InitSend /\ [][NextSend]_vars

(***************************************************************************)
(* The headers of the requests.  Two webhooks are configured, each with    *)
(* its own WEBHOOK_n_HEADERS; after Load, sendToWebhook builds the request *)
(* of each webhook in turn.                                                *)
(***************************************************************************)
\* the parts of a WEBHOOK_n_HEADERS value: name and value, or a part
\* without a colon
HeaderParts ==
    { << "Content-Type", "a" >>, << "content-type", "b" >>,
      << "User-Agent", "a" >>, << "X-A", "b" >>, << "x" >> }

RECURSIVE PartsUpTo(_)
PartsUpTo(n) ==
    IF n = 0 THEN { << >> }
    ELSE PartsUpTo(n - 1)
           \cup { Append(ps, q) : ps \in { x \in PartsUpTo(n - 1) : Len(x) = n - 1 },
                                  q \in HeaderParts }

\* the name under which http.Header stores a header: Header.Set applies
\* textproto.CanonicalMIMEHeaderKey to the key
CanonicalKey(k) == IF k = "content-type" THEN "Content-Type" ELSE k

\* req.Header after the two Set calls of sendToWebhook
DefaultHeaders ==
    [h \in {"Content-Type", "User-Agent"} |->
        IF h = "Content-Type" THEN "application/json"
        ELSE "cert-manager-notifier/1.0"]

\* Header.Set(key, value)
SetHeader(hdr, key, value) ==
    [h \in DOMAIN hdr \cup {CanonicalKey(key)} |->
        IF h = CanonicalKey(key) THEN value ELSE hdr[h]]

\* the orders in which a range loop can visit the keys of a map
Orders(S) ==
    { o \in [1..Cardinality(S) -> S] : \A i, j \in DOMAIN o : o[i] = o[j] => i = j }

RECURSIVE SetAll(_, _, _)
SetAll(hdr, headers, order) ==
    IF order = << >> THEN hdr
    ELSE SetAll(SetHeader(hdr, Head(order), headers[Head(order)]),
                headers, Tail(order))

\* the headers of a request whose defaults are set after the webhook's own
RequestHeaders_defaultsWin(headers, order) ==
    LET own == SetAll([h \in {} |-> ""], headers, order)
    IN  [h \in DOMAIN own \cup DOMAIN DefaultHeaders |->
            IF h \in DOMAIN DefaultHeaders THEN DefaultHeaders[h] ELSE own[h]]

\* the headers of the request sendToWebhook builds for a webhook with the
\* given Headers, the range loop visiting them in the given order
RequestHeaders(headers, order) == SetAll(DefaultHeaders, headers, order)

HeaderEnvirons ==
    { [WEBHOOK_URLS |-> << "u", ",", "u" >>, CHECK_INTERVAL |-> << >>,
       EXPIRATION_THRESHOLD |-> << >>, NAMESPACE |-> << >>,
       HEALTH_PORT |-> << >>, WEBHOOK_TIMEOUT |-> << << >>, << >> >>,
       WEBHOOK_HEADERS |-> << h1, h2 >>] :
         h1 \in PartsUpTo(MaxHeaders), h2 \in PartsUpTo(MaxHeaders) }

InitHeaders ==
    /\ env = << >>
    /\ ProcessStart
    /\ clock = 0
    /\ input \in { [call |-> "sendNotification", env |-> e] : e \in HeaderEnvirons }
    /\ output = NoCall

\* config.Load and NewNotifier
HeadersLoad ==
    /\ input.call = "sendNotification"
    /\ output = NoCall
    /\ output' = [call |-> "sendNotification",
                  webhooks |-> Load(input.env).cfg.Webhooks, sent |-> << >>]
    /\ UNCHANGED cancelled
    /\ SendUnchanged

\* sendToWebhook builds and sends the request of the next webhook
HeadersSend ==
    /\ output # NoCall
    /\ output.call = "sendNotification"
    /\ Len(output.sent) < Len(output.webhooks)
    /\ LET w == output.webhooks[Len(output.sent) + 1]
       IN  \E order \in Orders(DOMAIN w.Headers) :
              output' = [output EXCEPT
                            !.sent = Append(@, RequestHeaders(w.Headers, order))]
    /\ UNCHANGED cancelled
    /\ SendUnchanged

NextHeaders == HeadersLoad \/ HeadersSend

SpecHeaders == InitHeaders /\ [][NextHeaders]_vars

(***************************************************************************)
(* The lock of the table.  shouldNotifyExpired and shouldNotifyExpiring    *)
(* read notifiedCerts between notifiedMutex.RLock and RUnlock,             *)
(* markNotified writes it between Lock and Unlock, and checkCertificate    *)
(* sends between the two.  output holds the map, the holders of the        *)
(* RWMutex, and for every goroutine that runs Run its place in             *)
(* checkCertificate, its certKey and now, and the map as it last read it.  *)
(***************************************************************************)
\* two goroutines running Run on the same monitor
Goroutines_two == {1, 2}

\* main starts Run in one goroutine
Goroutines == {1}

IdleGoroutine == [pc |-> "idle", key |-> None, now |-> 0, seen |-> EmptyTable]

InitLock ==
    /\ env = << >>
    /\ ProcessStart
    /\ clock = 0
    /\ input = [call |-> "Run"]
    /\ output = [call |-> "Run", table |-> EmptyTable, readers |-> {},
                 writer |-> 0, g |-> [i \in Goroutines |-> IdleGoroutine]]

\* the certKey is in its cooldown according to the map as read
RecentlyNotified(table, certKey, t) ==
    certKey \in DOMAIN table /\ t - table[certKey] < Day

\* checkCertificate(cert, now) is called for an expired or expiring cert
LockCheckCertificate ==
    \E i \in Goroutines, k \in Keys, t \in 0..MaxTime :
        /\ output.g[i].pc = "idle"
        /\ t >= output.g[i].now
        /\ output' = [output EXCEPT !.g[i] = [@ EXCEPT !.pc = "rlock", !.key = k,
                                                        !.now = t]]
        /\ UNCHANGED cancelled
        /\ SendUnchanged

\* m.notifiedMutex.RLock()
LockRLock ==
    \E i \in Goroutines :
        /\ output.g[i].pc = "rlock"
        /\ output.writer = 0
        /\ output' = [output EXCEPT !.readers = @ \cup {i}, !.g[i].pc = "read"]
        /\ UNCHANGED cancelled
        /\ SendUnchanged

\* lastNotified, exists := m.notifiedCerts[certKey]
LockRead ==
    \E i \in Goroutines :
        /\ output.g[i].pc = "read"
        /\ output' = [output EXCEPT !.g[i].seen = output.table,
                                    !.g[i].pc = "runlock"]
        /\ UNCHANGED cancelled
        /\ SendUnchanged

\* the deferred RUnlock; shouldNotify... returns and checkCertificate
\* returns or goes on to send
LockRUnlock ==
    \E i \in Goroutines :
        /\ output.g[i].pc = "runlock"
        /\ output' = [output EXCEPT
                         !.readers = @ \ {i},
                         !.g[i].pc = IF RecentlyNotified(output.g[i].seen,
                                                         output.g[i].key,
                                                         output.g[i].now)
                                     THEN "idle" ELSE "send"]
        /\ UNCHANGED cancelled
        /\ SendUnchanged

\* Send...Notification returns nil or an error
LockSend ==
    \E i \in Goroutines, ok \in BOOLEAN :
        /\ output.g[i].pc = "send"
        /\ output' = [output EXCEPT !.g[i].pc = IF ok THEN "lock" ELSE "idle"]
        /\ UNCHANGED cancelled
        /\ SendUnchanged

\* m.notifiedMutex.Lock()
LockLock ==
    \E i \in Goroutines :
        /\ output.g[i].pc = "lock"
        /\ output.writer = 0
        /\ output.readers = {}
        /\ output' = [output EXCEPT !.writer = i, !.g[i].pc = "write"]
        /\ UNCHANGED cancelled
        /\ SendUnchanged

\* m.notifiedCerts[certKey] = now
LockWrite ==
    \E i \in Goroutines :
        /\ output.g[i].pc = "write"
        /\ output' = [output EXCEPT
                         !.table = [k \in DOMAIN @ \cup {output.g[i].key} |->
                                       IF k = output.g[i].key THEN output.g[i].now
                                       ELSE @[k]],
                         !.g[i].pc = "unlock"]
        /\ UNCHANGED cancelled
        /\ SendUnchanged

\* the deferred Unlock; markNotified and checkCertificate return
LockUnlock ==
    \E i \in Goroutines :
        /\ output.g[i].pc = "unlock"
        /\ output' = [output EXCEPT !.writer = 0, !.g[i].pc = "idle"]
        /\ UNCHANGED cancelled
        /\ SendUnchanged

NextLock ==
    \/ LockCheckCertificate
    \/ LockRLock
    \/ LockRead
    \/ LockRUnlock
    \/ LockSend
    \/ LockLock
    \/ LockWrite
    \/ LockUnlock

SpecLock == InitLock /\ [][NextLock]_vars

\* the steps of the goroutine running CertificateMonitor.Run
MonitorStep ==
    \/ GetCertificatesFail
    \/ GetCertificatesOk
    \/ CheckCertificate
    \/ CheckCertificatesDone
    \/ NewTicker
    \/ SelectTick
    \/ SelectDone
    \/ SendToWebhookStart
    \/ SendToWebhookFinish
    \/ SendNotificationReturn
    \/ CheckCertificateReturn

\* The goroutine is scheduled as long as the process lives, and each call it
\* makes returns: the List call is bound to ctx, each POST to
\* context.WithTimeout(ctx, webhook.Timeout) and to the client's Timeout. A
\* select whose ctx.Done() case is ready again and again takes it in the end
\* (the runtime picks among ready cases at random). Nothing is assumed about
\* main: the process need not exit.
Fairness == WF_vars(MonitorStep) /\ SF_vars(SelectDone)

SpecLive == InitLive /\ [][Next]_vars /\ Fairness

\* A run that is not shut down, in which every list holds ns/a with a
\* NotAfter that makes it expired or expiring, and the ticker goes on
\* ticking.  The clock is read up to MaxTime; the instants after it are not
\* told apart, the ticker firing at each of them.
RetryLists(t) ==
    { l \in CertListsFrom(1, t) :
        /\ l # << >>
        /\ l[1].key = "ns/a"
        /\ l[1].hasNotAfter
        /\ l[1].notAfter < t + threshold }

GetCertificatesOkDue == GetCertificatesOk /\ items' \in RetryLists(clock)

AdvanceLate ==
    /\ Alive
    /\ clock = MaxTime
    /\ monPc = "select"
    /\ tickerOn
    /\ ~tickPending
    /\ tickPending' = TRUE
    /\ UNCHANGED << callVars, env, mainPc, cfgWebhooks, checkInterval, threshold,
                    healthy, cancelled, clock, monPc, tickerOn, nextTick,
                    passVars, notifiedCerts, webhooks, fanoutVars, lastSuccess,
                    logVars >>

\* a webhook accepts the notification of the certificate k
SendAccepted(k) ==
    /\ SendToWebhookFinish
    /\ payload.key = k
    /\ sendToWebhook(resp') = None

RetryStep ==
    \/ GetCertificatesFail
    \/ GetCertificatesOkDue
    \/ CheckCertificate
    \/ CheckCertificatesDone
    \/ NewTicker
    \/ SelectTick
    \/ SendToWebhookStart
    \/ SendToWebhookFinish
    \/ SendNotificationReturn
    \/ CheckCertificateReturn

NextRetry ==
    \/ MainLoad
    \/ MainSetup
    \/ MainSetHealthy
    \/ MainStartMonitor
    \/ RetryStep
    \/ Advance
    \/ AdvanceLate

\* The goroutine is scheduled and its calls return; time passes and the
\* ticker fires; again and again the List of a pass succeeds, and again and
\* again a webhook accepts the notification of ns/a when it is sent one.
RetryFairness ==
    /\ WF_vars(RetryStep)
    /\ WF_vars(Advance \/ AdvanceLate)
    /\ SF_vars(GetCertificatesOkDue)
    /\ SF_vars(SendAccepted("ns/a"))

SpecRetry == InitLive /\ [][NextRetry]_vars /\ RetryFairness

\* the steps of main after its signal: health.SetHealthy(false), cancel(),
\* the return of time.Sleep
MainShutdown == MainSetUnhealthy \/ MainCancel \/ MainExit

\* The main goroutine is scheduled and its two-second Sleep returns. Nothing
\* is assumed about the goroutine of the monitor.
SpecExit == InitLive /\ [][Next]_vars /\ WF_vars(MainShutdown)

----------------------------------------------------------------------------
(* Properties *)

\* C1, as stated: every notification fired in a pass, its delivery having
\* succeeded or failed, leaves its key recorded with the now of the pass.
C1_RecordedEvenOnFailure ==
    monPc = "loop" =>
        \A i \in DOMAIN passEvents :
            /\ passEvents[i].key \in DOMAIN notifiedCerts
            /\ notifiedCerts[passEvents[i].key] = now

\* C1, amended: the table records a key with the now of a pass exactly when
\* the fan-out of that pass for the key returned nil: the table is the record
\* of the last successful notification of every key, and a fan-out that
\* failed at every webhook leaves it as it was.
C1_RecordedOnSuccessOnly ==
    /\ monPc # "returned" => notifiedCerts = lastSuccess
    /\ (monPc = "returned" /\ ret # Nil) => notifiedCerts = lastSuccess
    /\ (monPc = "returned" /\ ret = Nil) =>
          /\ lastSuccess[payload.key] = now
          /\ \A k \in DOMAIN lastSuccess \ {payload.key} :
                k \in DOMAIN notifiedCerts /\ notifiedCerts[k] = lastSuccess[k]

\* a notification fired for a key notified before has failed at every
\* webhook and checkCertificate has returned: the older instant is still
\* the recorded one
C1_Witness ==
    /\ monPc = "loop"
    /\ \E i \in DOMAIN passEvents :
          /\ passEvents[i].key \in DOMAIN notifiedCerts
          /\ notifiedCerts[passEvents[i].key] < now

\* C2: no notification fires for a key less than 24h after the now of a
\* successful notification for that key.
C2_CooldownSpacing ==
    (payload # NoPayload /\ ret # Nil /\ payload.key \in DOMAIN lastSuccess) =>
        now - lastSuccess[payload.key] >= Day

\* a second successful fan-out for a key, exactly 24h after the first
C2_Witness ==
    /\ monPc = "returned"
    /\ ret = Nil
    /\ payload.key \in DOMAIN notifiedCerts
    /\ now - notifiedCerts[payload.key] = Day

\* C3: checkCertificate, on a certificate that is expired or expiring, sends
\* a notification exactly when the table has no record of the key or the
\* record is at least 24h older than now.
C3_ShouldNotify ==
    [][ ( /\ monPc = "loop"
          /\ items # << >>
          /\ (monPc' # monPc \/ items' # items)
          /\ Head(items).hasNotAfter
          /\ now + threshold > Head(items).notAfter )
        => ( monPc' = "send" <=>
               \/ Head(items).key \notin DOMAIN notifiedCerts
               \/ now - notifiedCerts[Head(items).key] >= Day ) ]_vars

\* an expiring notification fired exactly 24h after the recorded instant
C3_Witness ==
    /\ monPc = "send"
    /\ payload.Type = "expiring"
    /\ payload.key \in DOMAIN notifiedCerts
    /\ now - notifiedCerts[payload.key] = Day

\* C4: a pass fires at most one notification per key, and a notification
\* for a certificate whose expiry is before now is of type expired.
C4_OneEventExpiredFirst ==
    /\ \A i, j \in DOMAIN passEvents :
          passEvents[i].key = passEvents[j].key => i = j
    /\ (payload # NoPayload /\ now > payload.ExpiresAt) => payload.Type = "expired"

\* the second notification of a pass, of type expired
C4_Witness ==
    /\ monPc = "returned"
    /\ payload.Type = "expired"
    /\ now > payload.ExpiresAt
    /\ Len(passEvents) = 2

\* C5: sendNotification returns nil exactly when some webhook succeeded;
\* otherwise its error wraps the error of the last webhook of the list.
C5_FanoutResult ==
    (monPc = "returned" /\ Len(webhooks) > 0) =>
        LET ok == { i \in DOMAIN attempts : attempts[i].result = "ok" }
            failed == DOMAIN attempts \ ok
        IN  /\ ret = Nil <=> ok # {}
            /\ ok = {} =>
                  /\ ret.err = "failed to send notification to any webhook"
                  /\ \E last \in failed :
                        /\ \A j \in failed : j <= last
                        /\ ret.cause = [webhook |-> webhooks[last].Name,
                                        err |-> attempts[last].result]

\* three webhooks have failed, the last two in different ways
C5_Witness ==
    /\ monPc = "returned"
    /\ Len(webhooks) = 3
    /\ ret # Nil
    /\ attempts[2].result # attempts[3].result

C7_DegradedIndicator ==
    monPc = "returned" =>
        LET ok == { i \in DOMAIN attempts : attempts[i].result = "ok" }
        IN  /\ warned <=> (ok # {} /\ ok # DOMAIN attempts)
            /\ warned => ret = Nil
            /\ (ok = DOMAIN attempts /\ ok # {}) => (ret = Nil /\ ~warned)

\* three webhooks of which the second answered with a non-2xx status
C7_Witness ==
    /\ monPc = "returned"
    /\ Len(webhooks) = 3
    /\ attempts[1].result = "ok"
    /\ attempts[2].result = "webhook returned non-success status"
    /\ attempts[3].result = "ok"
    /\ warned
    /\ ret = Nil

\* C8: with WEBHOOK_URLS unset, empty or made of blank entries only, Load
\* fails and main stops; a configuration that was loaded, and the notifier
\* built from it, have at least one webhook.
C8_NoEmptyDestinationList ==
    /\ (mainPc # "load" /\ \A i \in DOMAIN env : env[i] \in {",", " "}) =>
          (mainPc = "fatal" /\ cfgWebhooks = << >> /\ webhooks = << >>)
    /\ mainPc \notin {"load", "fatal"} => Len(cfgWebhooks) > 0
    /\ mainPc \notin {"load", "setup", "fatal"} => webhooks = cfgWebhooks
    /\ payload # NoPayload => Len(webhooks) > 0

\* Load has failed on a value made of blank entries
C8_Witness ==
    /\ mainPc = "fatal"
    /\ Len(env) = 3
    /\ env[2] = ","
    /\ \A i \in DOMAIN env : env[i] \in {",", " "}

\* C9: whenever the context is cancelled, the health flag is 0 already.
C9_UnhealthyBeforeCancel == cancelled => healthy = 0

\* the context is cancelled while a send is in flight
C9_Witness ==
    /\ cancelled
    /\ monPc = "inflight"
    /\ healthy = 0

\* C10: Run starts with a pass, before the ticker exists; every other pass
\* starts by taking a tick from the ticker; the ticker is created with the
\* check interval as its period and fires one period after it was created or
\* after it was last due.
C10_InitialPassThenTicker ==
    [][ /\ (monPc = "off" /\ monPc' # "off") => (monPc' = "check" /\ ~tickerOn')
        /\ (monPc \notin {"off", "check"} /\ monPc' = "check") =>
              (monPc = "select" /\ tickerOn /\ tickPending /\ ~tickPending')
        /\ (~tickerOn /\ tickerOn') =>
              (nextTick' = clock + checkInterval /\ ~tickPending')
        /\ (tickerOn /\ ~tickPending /\ tickPending') =>
              (clock' = nextTick /\ nextTick' = nextTick + checkInterval) ]_vars

\* a pass started by a tick is in progress
C10_Witness ==
    /\ tickerOn
    /\ monPc = "loop"
    /\ items # << >>

\* C11: one pass at a time and one certificate at a time. A pass starts
\* only when none is in progress; the list of a pass is visited only between
\* fetch and return; a fan-out is in progress only for the certificate being
\* visited, and the next one is visited after checkCertificate has returned;
\* this also when a tick arrives during the pass.
C11_NoOverlap ==
    /\ monPc \in {"off", "check", "newticker", "select", "stopped"} =>
          (items = << >> /\ payload = NoPayload /\ passEvents = << >>)
    /\ monPc = "loop" => (payload = NoPayload /\ attempts = << >>)
    /\ monPc \in {"send", "inflight", "returned"} =>
          /\ items # << >>
          /\ payload.key = Head(items).key
          /\ passEvents # << >>
          /\ passEvents[Len(passEvents)].key = payload.key

\* a tick is waiting while the pass in progress is sending the notification
\* of its second certificate
C11_Witness ==
    /\ tickPending
    /\ monPc = "inflight"
    /\ Len(passEvents) = 2

\* C12: when getCertificates fails, in the initial check or in a periodic
\* one, the pass ends there: no payload is built, notifiedCerts is unchanged,
\* Run goes on to time.NewTicker or back to its select, the ticker is left as
\* it was (the next tick neither delayed nor dropped), and a tick waiting
\* after a failed pass starts the next pass like any other.
C12_FetchFailureSkipsPass ==
    /\ [][(monPc = "check" /\ monPc' \notin {"check", "loop"}) =>
            /\ listErr'
            /\ monPc' = IF tickerOn THEN "select" ELSE "newticker"
            /\ payload' = NoPayload /\ passEvents' = << >>
            /\ UNCHANGED << notifiedCerts, lastSuccess, fanoutVars, passVars,
                            tickerVars >>]_vars
    /\ []((listErr /\ Alive /\ monPc = "select" /\ tickPending) =>
            ENABLED SelectTick)

\* a periodic pass started by a tick although the getCertificates before it
\* failed, with a notification recorded by an earlier pass still in the table
C12_Witness ==
    /\ listErr
    /\ tickerOn
    /\ monPc = "check"
    /\ notifiedCerts # EmptyTable

\* C13: once cancel() was called, Run returns (or the process is gone before
\* it could), wherever the goroutine was: waiting in the select, fetching, or
\* in the fan-out of a pass.
C13_RunReturnsAfterCancel ==
    cancelled ~> (monPc = "stopped" \/ ~Alive)

\* Run has returned while main is still in its Sleep
C13_Witness ==
    /\ cancelled
    /\ monPc = "stopped"
    /\ mainPc = "sleep"

C15_DaysFromTickNow ==
    payload.Type = "expiring" =>
        LET d == payload.ExpiresAt - now
        IN  /\ payload.Days * Day <= d
            /\ d < (payload.Days + 1) * Day

\* C15, amended: the days of an expiring message are the whole days,
\* fraction dropped, of the time from the clock read when the message is built
\* to the expiry: a day and a half gives 1, two days give 2. That clock is
\* never before the now of the pass, so the days are never more than the
\* whole days counted from now.
C15_DaysFromMessageClock ==
    payload.Type = "expiring" =>
        LET d == payload.ExpiresAt - payload.Timestamp
        IN  /\ payload.Timestamp >= now
            /\ d >= 0 => /\ payload.Days * Day <= d
                         /\ d < (payload.Days + 1) * Day
            /\ d < 0 => /\ payload.Days * Day >= d
                        /\ d > (payload.Days - 1) * Day
            /\ d = Day + Day \div 2 => payload.Days = 1
            /\ d = 2 * Day => payload.Days = 2
            /\ payload.Days <= (payload.ExpiresAt - now) \div Day

\* a certificate two days from expiry at the now of the pass, whose message,
\* built after the clock moved on, says 1
C15_Witness ==
    /\ payload.Type = "expiring"
    /\ payload.ExpiresAt - now = 2 * Day
    /\ payload.Timestamp > now
    /\ payload.ExpiresAt - payload.Timestamp = Day + Day \div 2
    /\ payload.Days = 1

\* C16: a call of sendToWebhook is counted as a success exactly when
\* client.Do returned a response and its status code is at least 200 and
\* less than 300; an error of client.Do (transport error, timeout, cancelled
\* context) and every other status code are failures, and successCount is
\* the number of calls counted as successes.
C16_SuccessIffStatus2xx ==
    /\ (monPc = "send" /\ attempts # << >>) =>
          LET a == attempts[Len(attempts)]
          IN  /\ resp # NoResponse
              /\ a.result = "ok" <=>
                    (~resp.err /\ resp.status >= 200 /\ resp.status < 300)
              /\ a.result = "failed to send request" <=> resp.err
              /\ a.result = "webhook returned non-success status" <=>
                    (~resp.err /\ (resp.status < 200 \/ resp.status >= 300))
    /\ monPc \in {"send", "returned"} =>
          successCount =
              Cardinality({i \in DOMAIN attempts : attempts[i].result = "ok"})

\* the first webhook was counted, the second answered 300 and was not
C16_Witness ==
    /\ monPc = "send"
    /\ Len(attempts) = 2
    /\ attempts[1].result = "ok"
    /\ attempts[2].result = "webhook returned non-success status"
    /\ ~resp.err
    /\ resp.status = 300
    /\ successCount = 1

\* C17, as stated: with CHECK_INTERVAL of a day, every periodic pass that
\* lists a certificate which is expired or expiring, notified before or not,
\* fires its notification: the cooldown never holds back a daily pass.
C17_NotifiedEveryPass ==
    (/\ checkInterval = Day
     /\ tickerOn
     /\ monPc = "loop"
     /\ items # << >>
     /\ \/ isCertificateExpired(Head(items), now)
        \/ isCertificateExpiring(Head(items), now)) =>
        NotificationKind(Head(items), now) # None

\* a periodic pass of a run with CHECK_INTERVAL of a day, about to skip an
\* expired or expiring certificate whose last notification was delivered by
\* an earlier pass that read its clock less than a day before this one
C17_SkippedDay ==
    /\ checkInterval = Day
    /\ tickerOn
    /\ monPc = "loop"
    /\ items # << >>
    /\ \/ isCertificateExpired(Head(items), now)
       \/ isCertificateExpiring(Head(items), now)
    /\ Head(items).key \in DOMAIN lastSuccess
    /\ now > lastSuccess[Head(items).key]
    /\ now - lastSuccess[Head(items).key] < Day
    /\ NotificationKind(Head(items), now) = None

C19_HealthFlagLifecycle ==
    /\ [](mainPc \in {"spawn", "wait"} => healthy = 1)
    /\ [](mainPc \in {"cancel", "sleep", "exited"} => healthy = 0)
    /\ [][healthy' # healthy => (mainPc = "shutdown" /\ healthy' = 0)]_vars
    /\ [][healthy = 0 => healthy' = 0]_vars

\* the flag is 0 after shutdown began, while a pass of the monitor is still
\* in progress
C19_Witness ==
    /\ healthy = 0
    /\ mainPc = "sleep"
    /\ monPc = "loop"
    /\ items = << >>

\* C20: a request to /health and a request to /ready answered in the same
\* state get the same status code, 200 when the health flag is 1 and 503
\* when it is not.
C20_SameVerdict ==
    /\ healthHandler.status = readyHandler.status
    /\ healthy = 1 => (healthHandler.status = 200 /\ readyHandler.status = 200)
    /\ healthy # 1 => (healthHandler.status = 503 /\ readyHandler.status = 503)

\* both endpoints answer 503 while the process sleeps before its exit
C20_Witness ==
    /\ mainPc = "sleep"
    /\ healthy = 0
    /\ healthHandler.status = 503
    /\ readyHandler.status = 503

C22_GivenUpToOwnTimeout ==
    (output # NoCall /\ output.call = "sendToWebhook"
        /\ ~cancelled /\ input.latency < input.timeout) =>
            output.result # "deadline exceeded"

\* a webhook configured with 60s that would answer after 45s is given up on
\* after 30s
C22_CutShortByClient ==
    /\ output # NoCall
    /\ output.call = "sendToWebhook"
    /\ ~cancelled
    /\ input.timeout = 60
    /\ input.latency = 45
    /\ output.elapsed = 30
    /\ output.result = "deadline exceeded"

\* C23: each request carries Content-Type application/json and the fixed
\* User-Agent unless the Headers of its own webhook name that header, and
\* then it carries a value the webhook gives for it; every other header of
\* the request is one of its own webhook, so the Headers of one webhook do
\* not reach the request of another.
C23_DefaultsUnlessOwnHeader ==
    (output # NoCall /\ output.call = "sendNotification") =>
        \A i \in DOMAIN output.sent :
            LET own == output.webhooks[i].Headers
                req == output.sent[i]
                naming(h) == { k \in DOMAIN own : CanonicalKey(k) = h }
            IN  /\ "Content-Type" \in DOMAIN req
                /\ "User-Agent" \in DOMAIN req
                /\ naming("Content-Type") = {} =>
                      req["Content-Type"] = "application/json"
                /\ naming("User-Agent") = {} =>
                      req["User-Agent"] = "cert-manager-notifier/1.0"
                /\ \A h \in DOMAIN req :
                      \/ naming(h) = {} /\ h \in {"Content-Type", "User-Agent"}
                      \/ \E k \in naming(h) : req[h] = own[k]

\* both requests are sent: the first webhook names Content-Type and X-A, the
\* second names neither; the first request carries the webhook's values, the
\* second the defaults and no X-A
C23_Witness ==
    /\ output # NoCall
    /\ output.call = "sendNotification"
    /\ Len(output.sent) = 2
    /\ DOMAIN output.webhooks[1].Headers = {"content-type", "X-A"}
    /\ DOMAIN output.webhooks[2].Headers = {"User-Agent"}
    /\ output.sent[1]["Content-Type"] = "b"
    /\ output.sent[1]["User-Agent"] = "cert-manager-notifier/1.0"
    /\ output.sent[2]["Content-Type"] = "application/json"
    /\ output.sent[2]["User-Agent"] = "a"
    /\ "X-A" \notin DOMAIN output.sent[2]

\* C24: checkCertificate(cert, now) does nothing for a certificate without
\* NotAfter; a notification it sends is of type expired only if
\* now > NotAfter, and of type expiring only if now <= NotAfter and
\* now + threshold > NotAfter; for a certificate with no record in the table
\* it sends expired if now > NotAfter, expiring if
\* now <= NotAfter < now + threshold, and nothing if now + threshold <= NotAfter.
\* So NotAfter = now is expiring when threshold > 0, and NotAfter =
\* now + threshold is healthy.
C24_Classification ==
    [][(monPc = "loop" /\ items # << >>
          /\ (monPc' = "send" \/ items' = Tail(items))) =>
          LET cert == Head(items)
              sent == monPc' = "send"
              fresh == cert.key \notin DOMAIN notifiedCerts
          IN  /\ ~cert.hasNotAfter => ~sent
              /\ sent => /\ payload'.key = cert.key
                         /\ payload'.Type \in {"expired", "expiring"}
                         /\ payload'.Type = "expired" <=> now > cert.notAfter
                         /\ payload'.Type = "expiring" =>
                               now + threshold > cert.notAfter
              /\ (fresh /\ cert.hasNotAfter) =>
                    /\ now > cert.notAfter => sent
                    /\ (now <= cert.notAfter /\ now + threshold > cert.notAfter)
                          => sent
                    /\ now + threshold <= cert.notAfter => ~sent
                    /\ (cert.notAfter = now /\ threshold > 0) =>
                          sent /\ payload'.Type = "expiring"]_vars

\* an expiring notification was built for a certificate whose NotAfter is
\* the instant of the pass
C24_Witness ==
    /\ monPc = "send"
    /\ payload.Type = "expiring"
    /\ payload.ExpiresAt = now
    /\ threshold > 0

\* C25: the table only grows: no step removes a key, whether or not the
\* certificate is in the list of the pass, and no step lowers the instant
\* recorded for a key; a key has one record, which a new notification
\* overwrites.
C25_TableOnlyGrows ==
    [][/\ DOMAIN notifiedCerts \subseteq DOMAIN notifiedCerts'
       /\ \A k \in DOMAIN notifiedCerts : notifiedCerts'[k] >= notifiedCerts[k]
       /\ Cardinality(DOMAIN notifiedCerts') <= Cardinality(DOMAIN notifiedCerts) + 1
      ]_vars

\* ns/b has a record of an earlier pass and is not in the list of this pass,
\* which ends with ns/a
C25_Witness ==
    /\ monPc = "loop"
    /\ Len(items) = 1
    /\ items[1].key = "ns/a"
    /\ "ns/b" \in DOMAIN notifiedCerts
    /\ notifiedCerts["ns/b"] < now

\* C26: a pass changes the table only at the key of a certificate for which
\* it fired a notification in that pass; a certificate without NotAfter, a
\* healthy one, one within its cooldown, and a key that is not in the list
\* keep their record or their absence, and no webhook is sent to for them.
C26_OnlyNotifiedKeysChange ==
    [][/\ notifiedCerts' # notifiedCerts =>
             /\ monPc = "returned"
             /\ payload.key = Head(items).key
             /\ \E i \in DOMAIN passEvents : passEvents[i].key = payload.key
             /\ \A k \in Keys \ {payload.key} :
                   /\ k \in DOMAIN notifiedCerts' <=> k \in DOMAIN notifiedCerts
                   /\ k \in DOMAIN notifiedCerts =>
                         notifiedCerts'[k] = notifiedCerts[k]
       /\ attempts' # << >> =>
             /\ items' # << >>
             /\ payload'.key = Head(items').key
             /\ NotificationKind(Head(items), now)' = payload'.Type
       /\ (monPc = "loop" /\ items # << >>
             /\ NotificationKind(Head(items), now) = None) =>
                (monPc' = "loop" /\ attempts' = << >>
                   /\ notifiedCerts' = notifiedCerts)
      ]_vars

\* a pass is over in which ns/b was notified and recorded while ns/a, which
\* has a record of an earlier pass, was not
C26_Witness ==
    /\ monPc = "loop"
    /\ items = << >>
    /\ Len(passEvents) = 1
    /\ passEvents[1].key = "ns/b"
    /\ "ns/a" \in DOMAIN notifiedCerts
    /\ "ns/b" \in DOMAIN notifiedCerts
    /\ notifiedCerts["ns/b"] = now
    /\ notifiedCerts["ns/a"] < now

\* C27: once cancellation has been raised while Run waits in its select, no
\* further pass begins, even when a tick is due at that moment.
C27_NoPassAfterCancel ==
    [][(cancelled /\ monPc = "select") => monPc' # "check"]_vars

\* C27 (amended): once cancellation has been raised while Run waits in its
\* select, Run either returns or, when a tick is due, calls checkCertificates
\* once more; the List of a pass that runs under the cancelled context fails,
\* so it classifies no certificate, starts no delivery and leaves the table
\* as it is.
C27_PassAfterCancelFetchesNothing ==
    [][/\ (cancelled /\ monPc = "select") =>
             /\ monPc' \in {"select", "check", "stopped"}
             /\ monPc' = "check" => tickPending
       /\ (cancelled /\ monPc = "check") =>
             /\ monPc' \in {"check", "select", "newticker"}
             /\ items' = items
             /\ attempts' = attempts
             /\ notifiedCerts' = notifiedCerts
      ]_vars

\* checkCertificates, called for a tick, is about to list under the
\* cancelled context while main waits out its sleep
C27_Witness ==
    /\ cancelled
    /\ mainPc = "sleep"
    /\ monPc = "check"
    /\ tickerOn
    /\ ~tickPending

\* C28: once the parent context is cancelled, the send that is in flight
\* and every send started afterwards in the same pass ends as a failure of
\* its webhook: client.Do returns an error, the webhook is not counted as a
\* success, the loop goes on to the next webhook, and no time passes while
\* the send waits.
C28_CancelAbortsSends ==
    [][(cancelled /\ monPc = "inflight") =>
          /\ clock' = clock
          /\ monPc' \in {"inflight", "send"}
          /\ monPc' = "send" =>
                /\ resp'.err
                /\ successCount' = successCount
                /\ attempts'[Len(attempts')].result = "failed to send request"
                /\ lastError'.webhook = webhooks[sendIdx].Name
                /\ sendIdx' = sendIdx + 1
      ]_vars

\* the first webhook was delivered to before the cancellation and the send to
\* the second ended in an error under the cancelled context
C28_Witness ==
    /\ cancelled
    /\ monPc = "send"
    /\ Len(attempts) = 2
    /\ attempts[1].result = "ok"
    /\ attempts[2].result = "failed to send request"
    /\ resp.err
    /\ successCount = 1

\* C29: a delivery that is in flight during the grace period of the
\* shutdown (the sleep of main before it exits) can still complete
\* successfully.
C29_GraceLetsDeliveryFinish ==
    (mainPc = "sleep" /\ monPc = "inflight") =>
        \E r \in Responses : sendToWebhook(r) = None

\* C29 (amended): the cancellation comes before the grace period, so during
\* the grace period no send completes successfully: a send in flight ends as
\* a failure, and a key is recorded only when another webhook had succeeded
\* before the cancellation.
C29_GraceAbortsDelivery ==
    [][mainPc = "sleep" =>
          /\ cancelled
          /\ successCount' = successCount \/ successCount' = 0
          /\ (monPc = "inflight" /\ monPc' = "send") =>
                attempts'[Len(attempts')].result = "failed to send request"
          /\ notifiedCerts' # notifiedCerts =>
                \E i \in DOMAIN attempts : attempts[i].result = "ok"
      ]_vars

\* during the grace period sendNotification has returned an error, its only
\* webhook given up on, and the key has no record
C29_Witness ==
    /\ mainPc = "sleep"
    /\ monPc = "returned"
    /\ ret # Nil
    /\ Len(attempts) = 1
    /\ attempts[1].result = "failed to send request"
    /\ payload.key \notin DOMAIN notifiedCerts

\* C30: the table is not persisted: a restarted process reaches its first
\* pass with an empty table, and in that pass a certificate that is expired
\* or expiring is notified although the previous process notified it less
\* than 24h before.
C30_RestartRearmsCooldown ==
    [][/\ (input.call = "restart" /\ monPc = "check" /\ ~tickerOn) =>
             notifiedCerts = EmptyTable
       /\ (input.call = "restart" /\ ~tickerOn /\ monPc = "loop" /\ items # << >>
             /\ (monPc' = "send" \/ items' = Tail(items))) =>
                LET cert == Head(items)
                IN  (/\ cert.key \in DOMAIN input.notifiedCerts
                     /\ now - input.notifiedCerts[cert.key] < Day
                     /\ \/ isCertificateExpired(cert, now)
                        \/ isCertificateExpiring(cert, now))
                       => /\ monPc' = "send"
                          /\ payload'.key = cert.key
      ]_vars

\* the first pass after the restart sends an expired notification for ns/a,
\* which the previous process notified less than 24h ago
C30_Witness ==
    /\ input.call = "restart"
    /\ ~tickerOn
    /\ monPc = "send"
    /\ payload.key = "ns/a"
    /\ payload.Type = "expired"
    /\ now - input.notifiedCerts["ns/a"] < Day
    /\ notifiedCerts = EmptyTable

\* C31: the body sent for a notification has type expired or expiring, the
\* one of the branch of checkCertificate that fired it, and its certificate
\* object carries the name, namespace, DNS names in their order and NotAfter
\* of the certificate that was classified, with the name of its issuer or
\* "unknown" when that name is empty; the body is marshalled once, so every
\* webhook of the fan-out is sent the same bytes.
C31_EventIsSnapshotSentOnce ==
    (payload # NoPayload /\ items # << >>) =>
        LET cert == Head(items)
            obj == Objects[cert.key]
        IN  /\ payload.Type \in {"expired", "expiring"}
            /\ payload.Type = "expired" <=> now > cert.notAfter
            /\ payload.Type = "expiring" =>
                  (now <= cert.notAfter /\ now + threshold > cert.notAfter)
            /\ \A i \in DOMAIN attempts :
                  LET body == attempts[i].body
                  IN  /\ body = attempts[1].body
                      /\ body["type"] = payload.Type
                      /\ body["certificate"]["name"] = obj.Name
                      /\ body["certificate"]["namespace"] = obj.Namespace
                      /\ body["certificate"]["dns_names"] = obj.DNSNames
                      /\ body["certificate"]["issuer"] =
                            IF obj.IssuerRef # "" THEN obj.IssuerRef ELSE "unknown"
                      /\ body["certificate"]["expires_at"] =
                            RFC3339(GoTime(cert.notAfter, FALSE))

\* the expiring notification of ns/a, which has an issuer and two DNS names,
\* has been sent to three webhooks
C31_Witness ==
    /\ monPc = "send"
    /\ Len(attempts) = 3
    /\ payload.Type = "expiring"
    /\ payload.key = "ns/a"
    /\ attempts[3].body["certificate"]["issuer"] = "letsencrypt"
    /\ attempts[3].body = attempts[1].body

\* C32: a notification that failed at every webhook does not end the pass
\* or touch the other certificates: checkCertificates logs the error and goes
\* on with the next certificate of the list, the table is left as it was,
\* every certificate of the list is checked before the pass ends, and whether
\* a certificate is notified depends on its own NotAfter and record only.
C32_FailureDoesNotStopPass ==
    [][/\ (monPc = "returned" /\ monPc' # "returned") =>
             /\ monPc' = "loop"
             /\ items' = Tail(items)
             /\ now' = now
             /\ ret # Nil => notifiedCerts' = notifiedCerts
       /\ (monPc = "loop" /\ items # << >>
             /\ (monPc' = "send" \/ items' = Tail(items))) =>
                (monPc' = "send" <=> NotificationKind(Head(items), now) # None)
       /\ (monPc = "loop" /\ monPc' \notin {"loop", "send"}) => items = << >>
      ]_vars

\* a pass is over in which the notification of ns/a failed at every webhook
\* and the notification of ns/b, after it in the list, was sent and recorded
C32_Witness ==
    /\ monPc = "loop"
    /\ items = << >>
    /\ Len(passEvents) = 2
    /\ passEvents[1].key = "ns/a"
    /\ passEvents[2].key = "ns/b"
    /\ "ns/a" \notin DOMAIN notifiedCerts
    /\ "ns/b" \in DOMAIN notifiedCerts
    /\ notifiedCerts["ns/b"] = now

\* C33: with every configuration Load accepts, Run goes from its initial
\* check into the select of its loop: the call of time.NewTicker does not
\* end the process.
C33_EntersLoopWithoutCrash ==
    [][monPc = "newticker" => monPc' \in {"newticker", "select"}]_vars

\* CHECK_INTERVAL=0 was accepted by Load and the process has ended in the
\* panic of time.NewTicker
C33_PanicOnZeroInterval ==
    /\ input.call = "main"
    /\ input.env.CHECK_INTERVAL = << "0" >>
    /\ Load(input.env).err = None
    /\ Load(input.env).cfg.CheckInterval = 0
    /\ monPc = "panicked"
    /\ mainPc = "panicked"

C35_ExitAfterSignal ==
    /\ (mainPc = "shutdown") ~> (mainPc = "exited")
    /\ [](mainPc \in {"shutdown", "cancel", "sleep"} => ENABLED MainShutdown)
    /\ [][/\ (mainPc = "shutdown" /\ mainPc' # mainPc) =>
                (mainPc' = "cancel" /\ healthy' = 0 /\ ~cancelled')
          /\ (mainPc = "cancel" /\ mainPc' # mainPc) =>
                (mainPc' = "sleep" /\ healthy' = 0 /\ cancelled')
          /\ (mainPc = "sleep" /\ mainPc' # mainPc) => mainPc' = "exited"
          /\ mainPc = "exited" => mainPc' = "exited"
         ]_vars

\* the process has exited while a send of the monitor was in flight
C35_Witness ==
    /\ mainPc = "exited"
    /\ monPc = "inflight"
    /\ healthy = 0
    /\ cancelled

\* C36: the table is read only by a goroutine that holds the read lock, with
\* no writer, and written only by the goroutine that holds the write lock,
\* with no reader; and from the read of shouldNotify... to the write of
\* markNotified for the same certificate the table is as it was read, since
\* the only goroutine that writes it is the one that runs Run.
C36_TableUnderLocks ==
    (output # NoCall /\ output.call = "Run") =>
        /\ output.writer # 0 => output.readers = {}
        /\ \A i \in DOMAIN output.g :
              LET g == output.g[i]
              IN  /\ g.pc \in {"read", "runlock"} =>
                        (i \in output.readers /\ output.writer = 0)
                  /\ g.pc \in {"write", "unlock"} =>
                        (output.writer = i /\ output.readers = {})
                  /\ g.pc \in {"send", "lock", "write"} => output.table = g.seen

\* markNotified holds the write lock and is about to overwrite the record of
\* a key whose cooldown was over when it was read
C36_Witness ==
    /\ output # NoCall
    /\ output.call = "Run"
    /\ output.g[1].pc = "write"
    /\ output.writer = 1
    /\ output.g[1].key \in DOMAIN output.table
    /\ output.g[1].now - output.table[output.g[1].key] >= Day

\* C37: sendNotification of a notifier that has no webhook makes no call of
\* sendToWebhook and returns the error "failed to send notification to any
\* webhook", wrapping a nil error, never nil; the key is not recorded.
C37_EmptyListNeverSucceeds ==
    webhooks = << >> =>
        /\ attempts = << >>
        /\ successCount = 0
        /\ monPc # "inflight"
        /\ monPc = "returned" =>
              /\ ret.err = "failed to send notification to any webhook"
              /\ ret.cause = NoError
        /\ ~warned
        /\ notifiedCerts = EmptyTable
        /\ lastSuccess = EmptyTable

\* sendNotification of the notifier without webhooks has returned its error
C37_Witness ==
    /\ webhooks = << >>
    /\ monPc = "returned"
    /\ payload # NoPayload
    /\ ret # Nil
    /\ ret # NotReturned

====
